---- MODULE Spec2Model ----
(***************************************************************************)
(* doltpy: a client-side layer over the `dolt` command line.               *)
(*                                                                         *)
(* The model has one external repository (what the `dolt` binary keeps in  *)
(* the repository directory), the process executor that runs one command   *)
(* at a time against it, the parsers of the command outputs, and the       *)
(* handlers built on them: the loader returned by get_dolt_loader          *)
(* (etl/loaders.py) and Dolt.merge (cli/dolt.py).  A handler is a sequence *)
(* of steps, one per external command it issues; every command may exit    *)
(* nonzero, which _execute turns into a DoltException that ends the call.  *)
(***************************************************************************)
EXTENDS Integers, Sequences, FiniteSets, TLC

\* ---------------------------------------------------------------- bounds

\* longest writer list handed to get_dolt_loader
MaxWriters == 2
\* how many times the loader (or merge) is invoked in one behaviour
MaxCalls == 2

\* ------------------------------------------------------- the name spaces

Branches == {"master", "feature"}
\* the order in which `dolt branch --list` prints the branches
BranchOrder == <<"feature", "master">>
Tables == {"t1", "cleaned"}
\* the order in which `dolt status` and `dolt merge` print the tables
TableOrder == <<"cleaned", "t1">>
\* the table names that contain the substring "clean"
CleanNamed == {"cleaned"}
NoArg == ""

VARIABLES
    repo,                 \* the external repository (state of the dolt binary)
    pre,                  \* the repository as it was when the call began
    mid,                  \* the repository as the loader's writers left it
    pc,                   \* position of the running handler
    outcome,              \* how the last call ended
    cmds,                 \* the commands the current call has issued, in order
    calls,                \* number of calls begun
    loader,               \* the closure get_dolt_loader returned
    original_branch,      \* loaders.py:163
    current_branch_list,  \* loaders.py:162, names of the listing read at the start
    tables_updated,       \* loaders.py:178
    added,                \* tables of tables_updated already passed to add
    merge_args,           \* the arguments of Dolt.merge
    merge_branches,       \* dolt.py:428, `branches`: names of the listing merge read
    status,               \* dolt.py:462, the status merge took after merging
    output,               \* dolt.py:442, the output of the merge command
    call,                 \* a direct call of the client: the function, its arguments,
                          \* what the process it spawns answers, its locals
    result,               \* what that call returned or raised
    tmpfile,              \* write.py:204, the staging file of the write under way
    other                 \* the loader of the other thread, while this one runs

vars == <<repo, pre, mid, pc, outcome, cmds, calls, loader, original_branch,
          current_branch_list, tables_updated, added, merge_args,
          merge_branches, status, output, call, result, tmpfile, other>>

loaderLocals == <<original_branch, current_branch_list, tables_updated>>
loaderVars == <<loader, loaderLocals>>
mergeVars == <<merge_args, merge_branches, status, output>>
cliVars == <<call, result>>
hostVars == <<tmpfile, other>>

\* ------------------------------------------------------------- utilities

Range(s) == {s[i] : i \in 1..Len(s)}

IsPrefix(s, t) == Len(s) <= Len(t) /\ SubSeq(t, 1, Len(s)) = s

\* the sequences over S of length at most n
SeqUpTo(S, n) == UNION {[1..k -> S] : k \in 0..n}

\* one entry of the command log: the command, its argument, and whether the
\* process exited with code 0
Cmd(c, a, ok) == [cmd |-> c, arg |-> a, ok |-> ok]

Issued(c) == {i \in 1..Len(cmds) : cmds[i].cmd = c}
IssuedWith(c, a) == {i \in 1..Len(cmds) : cmds[i].cmd = c /\ cmds[i].arg = a}

\* one line of a command's output: what kind of line it is and the table it
\* names, if any
SLine(k, t) == [k |-> k, t |-> t]

\* ------------------------------------------- the external dolt repository

Dirty(r) == {t \in Tables : r.wtree[t] \in {"modified", "new"}}

CleanRepo(a, bs, lg) ==
    [active |-> a, branches |-> bs, log |-> lg,
     wtree |-> [t \in Tables |-> "clean"], staged |-> {},
     merging |-> FALSE, theirs |-> <<>>,
     saved |-> [wtree |-> [t \in Tables |-> "clean"], staged |-> {}]]

\* `dolt branch <name>`: a new branch at the head of the active one
EnvBranchCreate(r, b) ==
    [r EXCEPT !.branches = @ \cup {b}, !.log[b] = r.log[r.active]]

\* `dolt checkout <branch>`: the working set travels with the checkout
EnvCheckout(r, b) == [r EXCEPT !.active = b]

\* `dolt add <table>`
EnvAdd(r, t) ==
    IF t \in Dirty(r) THEN [r EXCEPT !.staged = @ \cup {t}] ELSE r

\* a commit: its message, its tables and, for a merge commit, the history of
\* the branch merged in
Commit(m, ts, merged) == [msg |-> m, tables |-> ts, merged |-> merged]

\* `dolt commit -m <message>`: the staged tables become a commit on the
\* active branch
EnvCommit(r, m) ==
    [r EXCEPT !.log[r.active] = Append(@, Commit(m, r.staged, r.theirs)),
              !.wtree = [t \in Tables |-> IF t \in r.staged THEN "clean" ELSE @[t]],
              !.staged = {},
              !.merging = FALSE,
              !.theirs = <<>>]

\* `dolt table import`: changed tells whether the imported data differ from
\* the table's content
EnvImport(r, t, changed) ==
    [r EXCEPT !.wtree[t] =
        CASE @ = "absent" -> "new"
          [] @ = "clean" -> IF changed THEN "modified" ELSE "clean"
          [] OTHER -> @]

\* the history of branch b is contained in the active branch's: as a prefix,
\* or merged in by an earlier merge commit
UpToDate(r, b) ==
    LET ours == r.log[r.active]
    IN \/ IsPrefix(r.log[b], ours)
       \/ \E i \in 1..Len(ours) : ours[i].merged # <<>> /\ IsPrefix(r.log[b], ours[i].merged)

\* the active branch's history is a strict prefix of branch b's
CanFastForward(r, b) == ~UpToDate(r, b) /\ IsPrefix(r.log[r.active], r.log[b])

\* `dolt merge <branch>`, fast-forward: the active branch takes b's history
EnvFastForward(r, b) == [r EXCEPT !.log[r.active] = r.log[b]]

\* `dolt merge <branch>` of diverged histories: effect tells, per table,
\* whether the merge left it alone ("none"), merged it ("merged") or found
\* conflicting edits ("conflict"); the merge stays open until it is committed
\* or aborted
EnvThreeWay(r, b, effect) ==
    [r EXCEPT !.saved = [wtree |-> r.wtree, staged |-> r.staged],
              !.wtree = [t \in Tables |->
                            IF effect[t] = "none" THEN @[t]
                            ELSE IF @[t] \in {"absent", "new"} THEN "new" ELSE "modified"],
              !.merging = TRUE,
              !.theirs = r.log[b]]

\* `dolt merge --abort`: back to the working set the merge started from
EnvMergeAbort(r) ==
    [r EXCEPT !.wtree = r.saved.wtree, !.staged = r.saved.staged,
              !.merging = FALSE, !.theirs = <<>>]

\* what `dolt merge` prints, by outcome, ending in the empty string that
\* split("\n") leaves after the last newline
FastForwardOutput == <<SLine("Updating", NoArg), SLine("Fast-forward", NoArg), SLine("", NoArg)>>

UpToDateOutput == <<SLine("Already up to date.", NoArg), SLine("", NoArg)>>

RECURSIVE AutoMergeLines(_, _)
AutoMergeLines(effect, i) ==
    IF i > Len(TableOrder) THEN <<>>
    ELSE LET t == TableOrder[i]
         IN (CASE effect[t] = "none" -> <<>>
               [] effect[t] = "merged" -> <<SLine("Auto-merging", t)>>
               [] OTHER -> <<SLine("Auto-merging", t), SLine("CONFLICT (content)", t)>>)
            \o AutoMergeLines(effect, i + 1)

ThreeWayOutput(effect) ==
    <<SLine("Updating", NoArg)>>
    \o AutoMergeLines(effect, 1)
    \o (IF \E t \in Tables : effect[t] = "conflict"
        THEN <<SLine("Automatic merge failed; fix conflicts and then commit the result.", NoArg)>>
        ELSE <<>>)
    \o <<SLine("", NoArg)>>

\* ------------------------------------------------- `dolt status` and parse

\* one line of kind k for each table of ts, in the printing order
TableLines(ts, k) ==
    LET in(t) == t \in ts
        pick == SelectSeq(TableOrder, in)
    IN [i \in 1..Len(pick) |-> SLine(k, pick[i])]

Section(hdr, lines) == IF lines = <<>> THEN <<>> ELSE <<SLine(hdr, NoArg)>> \o lines

\* what `dolt status` prints for the repository
StatusOutput(r) ==
    LET stagedMod == {t \in r.staged : r.wtree[t] = "modified"}
        stagedNew == {t \in r.staged : r.wtree[t] = "new"}
        unstagedMod == {t \in Tables \ r.staged : r.wtree[t] = "modified"}
        untracked == {t \in Tables \ r.staged : r.wtree[t] = "new"}
    IN IF Dirty(r) = {}
       THEN <<SLine("On branch", NoArg), SLine("nothing to commit, working tree clean", NoArg)>>
       ELSE <<SLine("On branch", NoArg)>>
            \o Section("Changes to be committed",
                       TableLines(stagedMod, "modified") \o TableLines(stagedNew, "new table"))
            \o Section("Changes not staged for commit", TableLines(unstagedMod, "modified"))
            \o Section("Untracked files", TableLines(untracked, "new table"))

\* `"clean" in line`: the sentinel line, or a line naming a table whose name
\* contains the word
HasClean(line) == line.k = "nothing to commit, working tree clean" \/ line.t \in CleanNamed

\* a dict of table name -> staged flag, in insertion order
NoMap == <<>>
Keys(m) == [i \in 1..Len(m) |-> m[i].name]
\* m[name] = flag: a known key keeps its place, a new one goes last
Put(m, name, flag) ==
    IF \E i \in 1..Len(m) : m[i].name = name
    THEN [i \in 1..Len(m) |-> IF m[i].name = name THEN [name |-> name, staged |-> flag] ELSE m[i]]
    ELSE Append(m, [name |-> name, staged |-> flag])
DoltStatus(c, m, a) == [is_clean |-> c, modified_tables |-> m, added_tables |-> a]

RECURSIVE StatusLoop(_, _, _, _, _)
StatusLoop(lines, i, staged, changes, new_tables) ==
    IF i > Len(lines) THEN DoltStatus(FALSE, changes, new_tables)
    ELSE LET k == lines[i].k
             t == lines[i].t
         IN CASE k = "Changes to be committed" -> StatusLoop(lines, i + 1, TRUE, changes, new_tables)
              [] k = "Changes not staged for commit" -> StatusLoop(lines, i + 1, FALSE, changes, new_tables)
              [] k = "Untracked files" -> StatusLoop(lines, i + 1, FALSE, changes, new_tables)
              [] k = "modified" -> StatusLoop(lines, i + 1, staged, Put(changes, t, staged), new_tables)
              [] k = "new table" -> StatusLoop(lines, i + 1, staged, changes, Put(new_tables, t, staged))
              [] OTHER -> StatusLoop(lines, i + 1, staged, changes, new_tables)

\* Dolt.status without the test for the sentinel of line 337
ParseStatusNoSentinel(lines) == StatusLoop(lines, 1, FALSE, NoMap, NoMap)

\* Dolt.status applied to the command's output
ParseStatus(lines) ==
    IF \E i \in 1..Len(lines) : HasClean(lines[i])
    THEN DoltStatus(TRUE, NoMap, NoMap)
    ELSE StatusLoop(lines, 1, FALSE, NoMap, NoMap)

\* ------------------------------------- `dolt branch --list` and its parse

BLine(star, name) == [star |-> star, name |-> name]
EmptyLine == BLine(FALSE, NoArg)

\* what `dolt branch --list --verbose` prints, and the empty string that
\* split("\n") leaves after the last newline
BranchListOutput(r) ==
    LET present(b) == b \in r.branches
        pick == SelectSeq(BranchOrder, present)
    IN [i \in 1..Len(pick) |-> BLine(pick[i] = r.active, pick[i])] \o <<EmptyLine>>

NoBranch == "?"

RECURSIVE GetBranchesLoop(_, _, _, _)
GetBranchesLoop(lines, i, branches, active_branch) ==
    IF i > Len(lines) \/ lines[i] = EmptyLine
    THEN [active |-> active_branch, names |-> branches]
    ELSE GetBranchesLoop(lines, i + 1, Append(branches, lines[i].name),
                         IF lines[i].star THEN lines[i].name ELSE active_branch)

\* Dolt._get_branches applied to the command's output; ok is FALSE where
\* the code raises "Failed to set active branch"
ParseBranches(lines) ==
    LET got == GetBranchesLoop(lines, 1, <<>>, NoBranch)
    IN [ok |-> got.active # NoBranch, active |-> got.active, names |-> got.names]

\* ------------------------------------------------------ ending a call

\* an exception leaves the handler: the call ends, nothing else runs
Raise(exc) == pc' = "done" /\ outcome' = exc

Return == pc' = "done" /\ outcome' = "returned"

Begin(first) ==
    /\ pc \in {"idle", "done"}
    /\ calls < MaxCalls
    /\ calls' = calls + 1
    /\ pc' = first
    /\ pre' = repo
    /\ mid' = [set |-> FALSE, repo |-> repo]
    /\ cmds' = <<>>
    /\ outcome' = "none"

\* ------------------------------------- get_dolt_loader.inner, loaders.py

\* the check of line 165 made on the wrong side: only same-branch loads fail
ConfigRejectedSameBranch(branch, original, commit) == branch = original /\ ~commit

\* loaders.py:165
ConfigRejected(branch, original, commit) == branch # original /\ ~commit

\* the comparison of line 168 left out: the loader never switches
NeedsCheckoutNever(current, branch) == FALSE

\* loaders.py:168
NeedsCheckout(current, branch) == current # branch

\* the membership test of line 170 inverted
NeedsCreateInverted(branch, names) == branch \in Range(names)

\* loaders.py:170
NeedsCreate(branch, names) == branch \notin Range(names)

\* the comparison of line 191 inverted
NeedsRestoreInverted(original, current) == original = current

\* loaders.py:191
NeedsRestore(original, current) == original # current

\* loaders.py:178, 180: the next writer, or what follows the last one
AfterWriters(n) ==
    IF n < Len(loader.writers) THEN "L178"
    ELSE IF loader.commit THEN "L181" ELSE "L190"

\* the loop of lines 183-184 left out: straight to the commit
AfterAddsSkipped(n, tables) == "L185"

\* loaders.py:183-185: the next table to add, or the commit
AfterAdds(n, tables) == IF n < Len(tables) THEN "L184" ELSE "L185"

\* the writers are through once the last of the list has reported its table
WritersLeft(n, r) ==
    mid' = IF n < Len(loader.writers) THEN mid ELSE [set |-> TRUE, repo |-> r]

\* lines 175-176 left out: transaction_mode is ignored
TransactionCheckIgnored(r) ==
    pc' = AfterWriters(0) /\ WritersLeft(0, r) /\ UNCHANGED outcome

\* loaders.py:175-176, on the repository r the branch steps left
TransactionCheck(r) ==
    IF loader.transaction_mode
    THEN Raise("NotImplementedError") /\ UNCHANGED mid
    ELSE pc' = AfterWriters(0) /\ WritersLeft(0, r) /\ UNCHANGED outcome

\* a loader that undid the earlier writers' changes when a writer raises
WriterRaisesRollback(exc) ==
    /\ Raise(exc)
    /\ repo' = [repo EXCEPT !.wtree = pre.wtree]
    /\ UNCHANGED <<tables_updated, mid>>

\* loaders.py:178: an exception of a writer leaves the list comprehension
\* and the loader; nothing is undone
WriterRaises(exc) == Raise(exc) /\ UNCHANGED <<repo, tables_updated, mid>>

LoaderInvoke ==
    /\ Begin("L162")
    /\ original_branch' = NoBranch
    /\ current_branch_list' = <<>>
    /\ tables_updated' = <<>>
    /\ added' = 0
    /\ UNCHANGED <<repo, loader, mergeVars, cliVars, hostVars>>

\* loaders.py:162-170: read the listing, reject the unsafe configuration,
\* decide whether to switch
LoaderReadBranches ==
    /\ pc = "L162"
    /\ \E ok \in BOOLEAN :
        /\ cmds' = Append(cmds, Cmd("branch --list", NoArg, ok))
        /\ LET got == ParseBranches(BranchListOutput(repo))
           IN IF ~ok \/ ~got.ok
              THEN Raise("DoltException") /\ UNCHANGED <<original_branch, current_branch_list, mid>>
              ELSE /\ original_branch' = got.active
                   /\ current_branch_list' = got.names
                   /\ IF ConfigRejected(loader.branch, got.active, loader.commit)
                      THEN Raise("ValueError") /\ UNCHANGED mid
                      ELSE IF NeedsCheckout(got.active, loader.branch)
                      THEN /\ pc' = IF NeedsCreate(loader.branch, got.names) THEN "L172" ELSE "L173"
                           /\ UNCHANGED <<outcome, mid>>
                      ELSE TransactionCheck(repo)
    /\ UNCHANGED <<repo, pre, calls, loader, tables_updated, added, mergeVars, cliVars, hostVars>>

\* loaders.py:172, dolt.py:662-674: Dolt.branch(branch_name=branch) runs
\* `branch <name>` and then reads the listing again
LoaderCreateBranch ==
    /\ pc = "L172"
    /\ \E res \in {"branch fails", "list fails", "ok"} :
        /\ res # "branch fails" => loader.branch \notin repo.branches
        /\ CASE res = "branch fails" ->
                  /\ cmds' = Append(cmds, Cmd("branch", loader.branch, FALSE))
                  /\ Raise("DoltException")
                  /\ UNCHANGED repo
             [] res = "list fails" ->
                  /\ cmds' = cmds \o <<Cmd("branch", loader.branch, TRUE),
                                       Cmd("branch --list", NoArg, FALSE)>>
                  /\ Raise("DoltException")
                  /\ repo' = EnvBranchCreate(repo, loader.branch)
             [] OTHER ->
                  /\ cmds' = cmds \o <<Cmd("branch", loader.branch, TRUE),
                                       Cmd("branch --list", NoArg, TRUE)>>
                  /\ pc' = "L173"
                  /\ repo' = EnvBranchCreate(repo, loader.branch)
                  /\ UNCHANGED outcome
    /\ UNCHANGED <<pre, mid, calls, loader, loaderLocals, added, mergeVars, cliVars, hostVars>>

\* loaders.py:173-176
LoaderCheckoutTarget ==
    /\ pc = "L173"
    /\ \E ok \in BOOLEAN :
        /\ ok => loader.branch \in repo.branches
        /\ cmds' = Append(cmds, Cmd("checkout", loader.branch, ok))
        /\ IF ok
           THEN repo' = EnvCheckout(repo, loader.branch)
                /\ TransactionCheck(EnvCheckout(repo, loader.branch))
           ELSE UNCHANGED <<repo, mid>> /\ Raise("DoltException")
    /\ UNCHANGED <<pre, calls, loader, loaderLocals, added, mergeVars, cliVars, hostVars>>

\* loaders.py:178 and 66-70: the next writer of the list.  It lists the
\* tables, fetches its data, and imports them; it either raises or reports
\* its table.
LoaderRunWriter ==
    /\ pc = "L178"
    /\ LET k == Len(tables_updated) + 1
           table == loader.writers[k]
           ran == <<Cmd("ls", NoArg, TRUE), Cmd("ls", NoArg, TRUE)>>
       IN \E res \in {"get_data raises", "import fails", "changed", "same"} :
            CASE res = "get_data raises" ->
                   /\ cmds' = Append(cmds, Cmd("ls", NoArg, TRUE))
                   /\ WriterRaises("Exception")
              [] res = "import fails" ->
                   /\ cmds' = cmds \o ran \o <<Cmd("table import", table, FALSE)>>
                   /\ WriterRaises("DoltException")
              [] OTHER ->
                   /\ cmds' = cmds \o ran \o <<Cmd("table import", table, TRUE)>>
                   /\ repo' = EnvImport(repo, table, res = "changed")
                   /\ tables_updated' = Append(tables_updated, table)
                   /\ pc' = AfterWriters(k)
                   /\ WritersLeft(k, EnvImport(repo, table, res = "changed"))
                   /\ UNCHANGED outcome
    /\ UNCHANGED <<pre, calls, loader, original_branch, current_branch_list, added,
                   mergeVars, cliVars, hostVars>>

\* loaders.py:180-188
LoaderCheckStatus ==
    /\ pc = "L181"
    /\ \E ok \in BOOLEAN :
        /\ cmds' = Append(cmds, Cmd("status", NoArg, ok))
        /\ IF ~ok
           THEN Raise("DoltException")
           ELSE /\ pc' = IF ~ParseStatus(StatusOutput(repo)).is_clean
                         THEN AfterAdds(0, tables_updated)
                         ELSE "L190"
                /\ UNCHANGED outcome
    /\ UNCHANGED <<repo, pre, mid, calls, loader, loaderLocals, added, mergeVars, cliVars, hostVars>>

\* loaders.py:183-184, dolt.py:364-365: Dolt.add runs `add <table>` and then
\* `status`
LoaderAdd ==
    /\ pc = "L184"
    /\ LET table == tables_updated[added + 1]
       IN \E res \in {"add fails", "status fails", "ok"} :
            /\ res # "add fails" => repo.wtree[table] # "absent"
            /\ CASE res = "add fails" ->
                      /\ cmds' = Append(cmds, Cmd("add", table, FALSE))
                      /\ Raise("DoltException")
                      /\ UNCHANGED <<repo, added>>
                 [] res = "status fails" ->
                      /\ cmds' = cmds \o <<Cmd("add", table, TRUE), Cmd("status", NoArg, FALSE)>>
                      /\ Raise("DoltException")
                      /\ repo' = EnvAdd(repo, table)
                      /\ UNCHANGED added
                 [] OTHER ->
                      /\ cmds' = cmds \o <<Cmd("add", table, TRUE), Cmd("status", NoArg, TRUE)>>
                      /\ repo' = EnvAdd(repo, table)
                      /\ added' = added + 1
                      /\ pc' = AfterAdds(added + 1, tables_updated)
                      /\ UNCHANGED outcome
    /\ UNCHANGED <<pre, mid, calls, loader, original_branch, current_branch_list,
                   tables_updated, mergeVars, cliVars, hostVars>>

\* loaders.py:185: `commit -m <message>` exits nonzero when nothing is staged
LoaderCommit ==
    /\ pc = "L185"
    /\ \E ok \in BOOLEAN :
        /\ ok => repo.staged # {}
        /\ cmds' = Append(cmds, Cmd("commit", loader.message, ok))
        /\ IF ok
           THEN repo' = EnvCommit(repo, loader.message) /\ pc' = "L190" /\ UNCHANGED outcome
           ELSE UNCHANGED repo /\ Raise("DoltException")
    /\ UNCHANGED <<pre, mid, calls, loader, loaderLocals, added, mergeVars, cliVars, hostVars>>

\* loaders.py:190-191
LoaderRestoreRead ==
    /\ pc = "L190"
    /\ \E ok \in BOOLEAN :
        /\ cmds' = Append(cmds, Cmd("branch --list", NoArg, ok))
        /\ LET got == ParseBranches(BranchListOutput(repo))
           IN IF ~ok \/ ~got.ok
              THEN Raise("DoltException")
              ELSE IF NeedsRestore(original_branch, got.active)
              THEN pc' = "L197" /\ UNCHANGED outcome
              ELSE Return
    /\ UNCHANGED <<repo, pre, mid, calls, loader, loaderLocals, added, mergeVars, cliVars, hostVars>>

\* loaders.py:197-199
LoaderRestoreCheckout ==
    /\ pc = "L197"
    /\ \E ok \in BOOLEAN :
        /\ ok => original_branch \in repo.branches
        /\ cmds' = Append(cmds, Cmd("checkout", original_branch, ok))
        /\ IF ok
           THEN repo' = EnvCheckout(repo, original_branch) /\ Return
           ELSE UNCHANGED repo /\ Raise("DoltException")
    /\ UNCHANGED <<pre, mid, calls, loader, loaderLocals, added, mergeVars, cliVars, hostVars>>

\* ----------------------------------------------- the loader specification

NoCall == [fn |-> "none"]
\* no staging file was named, no other thread runs
NoFile == "none"
NoOther == [id |-> 0]
NoResult == [kind |-> "none"]
NoMerge == [branch |-> NoBranch, message |-> NoArg, squash |-> FALSE]
NoLoader == [writers |-> <<>>, commit |-> FALSE, message |-> NoArg,
             branch |-> NoBranch, transaction_mode |-> FALSE]
EmptyLog == [b \in Branches |-> <<>>]

\* the repositories a loader is invoked on: any active branch, any working set
LoaderRepos ==
    {[CleanRepo(a, bs, EmptyLog) EXCEPT !.wtree = w] :
        a \in {"master"}, bs \in {{"master"}}, w \in [Tables -> {"absent", "clean", "modified", "new"}]}
    \cup
    {[CleanRepo(a, Branches, EmptyLog) EXCEPT !.wtree = w] :
        a \in Branches, w \in [Tables -> {"absent", "clean", "modified", "new"}]}

\* the closures get_dolt_loader returns, loaders.py:140-146
Loaders ==
    [writers : SeqUpTo(Tables, MaxWriters), commit : BOOLEAN, message : {"load"},
     branch : Branches, transaction_mode : BOOLEAN]

LoaderInit ==
    /\ repo \in LoaderRepos
    /\ pre = repo
    /\ mid = [set |-> FALSE, repo |-> repo]
    /\ pc = "idle"
    /\ outcome = "none"
    /\ cmds = <<>>
    /\ calls = 0
    /\ loader \in Loaders
    /\ original_branch = NoBranch
    /\ current_branch_list = <<>>
    /\ tables_updated = <<>>
    /\ added = 0
    /\ merge_args = NoMerge
    /\ merge_branches = <<>>
    /\ status = DoltStatus(TRUE, NoMap, NoMap)
    /\ output = <<>>
    /\ call = NoCall
    /\ result = NoResult
    /\ tmpfile = NoFile
    /\ other = NoOther

LoaderNext ==
    \/ LoaderInvoke
    \/ LoaderReadBranches
    \/ LoaderCreateBranch
    \/ LoaderCheckoutTarget
    \/ LoaderRunWriter
    \/ LoaderCheckStatus
    \/ LoaderAdd
    \/ LoaderCommit
    \/ LoaderRestoreRead
    \/ LoaderRestoreCheckout

LoaderSpec == LoaderInit /\ [][LoaderNext]_vars

\* ------------------------------------------------- claims on the loader

Target == loader.branch
Ended == pc = "done"
Returned == pc = "done" /\ outcome = "returned"
InCall == pc \notin {"idle", "L162"}

\* the loader checked its target out (line 173 succeeded)
Switched ==
    /\ Target # pre.active
    /\ \E i \in IssuedWith("checkout", Target) : cmds[i].ok

\* the checkouts of the originally active branch, line 197
RestoreIdx == IF Target = pre.active THEN {} ELSE IssuedWith("checkout", pre.active)

\* the arguments of the commands c issued before position n, in order
ArgsBefore(c, n) ==
    LET is(e) == e.cmd = c
        sel == SelectSeq(SubSeq(cmds, 1, n - 1), is)
    IN [i \in 1..Len(sel) |-> sel[i].arg]

\* the status re-checked at line 181 reports changes
RecheckDirty == loader.commit /\ mid.set /\ ~ParseStatus(StatusOutput(mid.repo)).is_clean

\* C1: whenever a loader call that checked its target out ends, on any exit
\* path, it has issued the checkout of the originally active branch, and the
\* active branch is the one the call began on.
C1_RestoredOnEveryExit ==
    (Ended /\ Switched) =>
        /\ RestoreIdx # {}
        /\ (\A i \in RestoreIdx : cmds[i].ok) => repo.active = pre.active

\* C2: a loader with commit=true and a target other than the active branch
\* that returns normally leaves the active branch as it found it, with or
\* without a commit.
C2_RestoredOnReturn ==
    (Returned /\ loader.commit /\ Target # pre.active) =>
        /\ repo.active = pre.active
        /\ Switched
        /\ \E i \in RestoreIdx : cmds[i].ok

C2_Witness ==
    /\ Returned /\ loader.commit /\ Target # pre.active
    /\ \E i \in Issued("commit") : cmds[i].ok
    /\ repo.active = pre.active

\* C2, the other case: the same return with the commit skipped
C2_WitnessNoCommit ==
    /\ Returned /\ loader.commit /\ Target # pre.active
    /\ Issued("commit") = {}
    /\ repo.active = pre.active

\* C3: with a target other than the active branch and commit=false the call
\* ends with the ValueError of line 166 right after reading the listing,
\* having issued nothing else; so branch-create and checkout are issued only
\* by calls with commit=true whose target is not the active branch.
C3_FailFast ==
    /\ (InCall /\ Target # pre.active /\ ~loader.commit) =>
          /\ Ended
          /\ Len(cmds) = 1
          /\ cmds[1].cmd = "branch --list"
          /\ outcome = IF cmds[1].ok THEN "ValueError" ELSE "DoltException"
          /\ repo = pre
    /\ (Issued("branch") \cup Issued("checkout") # {}) =>
          (loader.commit /\ Target # pre.active)

C3_Witness ==
    /\ Ended /\ outcome = "ValueError"
    /\ Target # pre.active /\ ~loader.commit
    /\ Len(loader.writers) > 0

\* C4: with commit=true and a working set that is clean once the writers have
\* run, no add and no commit is issued and every branch keeps its history,
\* in a first call and in a repeated one.
C4_NoOpLoadCommitsNothing ==
    (InCall /\ loader.commit /\ mid.set /\ Dirty(mid.repo) = {}) =>
        /\ Issued("add") = {}
        /\ Issued("commit") = {}
        /\ repo.log = pre.log

C4_Witness ==
    /\ Returned /\ loader.commit /\ mid.set /\ Dirty(mid.repo) = {}
    /\ Len(tables_updated) = MaxWriters
    /\ calls = 2
    /\ repo.log = pre.log

\* C5: with commit=true and a dirty re-checked status, the loader adds every
\* table the writers reported, in their order, then commits once with the
\* supplied message; no add follows the commit, and the checkout that
\* restores the original branch comes after the commit.
C5_AddsThenOneCommit ==
    /\ Cardinality(Issued("commit")) <= 1
    /\ \A c \in Issued("commit") :
          /\ RecheckDirty
          /\ cmds[c].arg = loader.message
          /\ ArgsBefore("add", c) = tables_updated
          /\ \A a \in Issued("add") : a < c /\ cmds[a].ok
          /\ \A i \in RestoreIdx : c < i
    /\ (RecheckDirty /\ (pc \in {"L190", "L197"} \/ Returned)) =>
          \E c \in Issued("commit") : cmds[c].ok
    /\ (~RecheckDirty) => Issued("add") = {}

C5_Witness ==
    /\ Returned /\ RecheckDirty /\ Switched
    /\ Len(tables_updated) = MaxWriters
    /\ \E c \in Issued("commit") : cmds[c].ok /\ \E i \in RestoreIdx : c < i

\* the successful imports, in the order they were issued
Imported ==
    LET is(e) == e.cmd = "table import" /\ e.ok
        sel == SelectSeq(cmds, is)
    IN [i \in 1..Len(sel) |-> sel[i].arg]

\* the call ended in a writer: the last thing it did was a writer's command
WriterRaised ==
    /\ Ended /\ outcome \in {"Exception", "DoltException"}
    /\ cmds # <<>>
    /\ LET last == cmds[Len(cmds)]
       IN last.cmd = "ls" \/ (last.cmd = "table import" /\ ~last.ok)

C6_StateInv ==
    /\ IsPrefix(tables_updated, loader.writers)
    /\ Imported = tables_updated
    /\ WriterRaised =>
          /\ Len(tables_updated) < Len(loader.writers)
          /\ Issued("add") \cup Issued("commit") \cup Issued("reset") = {}
          /\ RestoreIdx = {}
          /\ \A t \in Range(tables_updated) : repo.wtree[t] # "absent"
          /\ repo.log = pre.log /\ repo.staged = pre.staged

\* the step in which a writer raises changes nothing in the repository and
\* ends the call
C6_RaiseStep ==
    (pc = "L178" /\ pc' = "done") =>
        /\ repo' = repo
        /\ tables_updated' = tables_updated
        /\ outcome' \in {"Exception", "DoltException"}

\* C6: the writers run one at a time in list order; when one raises the call
\* ends there with its exception: no later writer runs, no add, commit, reset
\* or checkout is issued, and the changes of the earlier writers stay in the
\* working set.
C6_WriterFailurePropagates == []C6_StateInv /\ [][C6_RaiseStep]_vars

C6_Witness ==
    /\ WriterRaised
    /\ Len(tables_updated) = 1
    /\ repo.wtree # pre.wtree

\* C7 as stated: a call with transaction_mode always ends with the
\* NotImplementedError (a command that exits nonzero aside).
C7_AlwaysNotImplemented ==
    (Ended /\ loader.transaction_mode /\ outcome # "DoltException") =>
        outcome = "NotImplementedError"

\* C7 amended: a call with transaction_mode runs no writer and issues no add
\* and no commit; it ends with the NotImplementedError of line 176 unless
\* the check of line 165 (target other than the active branch, commit false)
\* ended it first with its ValueError, or a branch command exited nonzero.
C7_TransactionModeRejected ==
    loader.transaction_mode =>
        /\ Issued("ls") \cup Issued("table import") = {}
        /\ Issued("add") \cup Issued("commit") \cup Issued("status") = {}
        /\ tables_updated = <<>>
        /\ ~mid.set
        /\ InCall => pc \in {"L172", "L173", "done"}
        /\ Ended =>
             outcome = IF \E i \in 1..Len(cmds) : ~cmds[i].ok THEN "DoltException"
                       ELSE IF Target # pre.active /\ ~loader.commit THEN "ValueError"
                       ELSE "NotImplementedError"

C7_Witness ==
    /\ Ended /\ loader.transaction_mode /\ outcome = "NotImplementedError"
    /\ Switched
    /\ Len(loader.writers) > 0

\* C8: with a target that is not the active branch (and commit=true) the
\* loader issues branch-create and then checkout when the listing read at the
\* start lacks the target, and the checkout alone when it lists it; with the
\* target active it issues neither.
C8_CreateThenCheckout ==
    LET creates == Issued("branch")
        switches == IssuedWith("checkout", Target) \ RestoreIdx
        listed == Target \in pre.branches
        past == pc \in {"L178", "L181", "L184", "L185", "L190", "L197"} \/ Returned
    IN /\ Target = pre.active => creates \cup Issued("checkout") = {}
       /\ Cardinality(creates) <= 1 /\ Cardinality(switches) <= 1
       /\ \A j \in creates : cmds[j].arg = Target /\ ~listed
       /\ \A i \in switches : listed \/ \E j \in creates : j < i /\ cmds[j].ok
       /\ (InCall /\ past /\ Target # pre.active) =>
             \E i \in switches : cmds[i].ok

C8_Witness ==
    /\ Returned /\ Target # pre.active /\ Target \notin pre.branches
    /\ \E j \in Issued("branch"), i \in IssuedWith("checkout", Target) : j < i

\* C8, the other case: the target was listed
C8_WitnessListed ==
    /\ Returned /\ Target # pre.active /\ Target \in pre.branches
    /\ Issued("branch") = {}
    /\ IssuedWith("checkout", Target) # {}

\* ----------------------------------------------------- Dolt.merge, dolt.py

\* the status test of line 429 left out
MergeRejectsDirtyNever(st) == FALSE

\* dolt.py:429
MergeRejectsDirty(st) == ~st.is_clean

\* the membership test of line 432 inverted
MergeRejectsListed(branch, names) == branch \in Range(names)

\* dolt.py:432
MergeRejectsMissing(branch, names) == branch \notin Range(names)

\* the fast-forward test of line 445 left out
IsFastForwardNever(out) == FALSE

\* dolt.py:445
IsFastForward(out) == Len(out) = 3 /\ out[2].k = "Fast-forward"

\* dolt.py:443, 449: merge_conflict_pos = 2 counts from 0
IsConflict(out) == Len(out) = 5 /\ out[3].k = "CONFLICT (content)"

\* dolt.py:464
TablesToAdd(st) == Keys(st.added_tables) \o Keys(st.modified_tables)

\* the loop of lines 464-465 left out: straight to the commit
AfterMergeAddsSkipped(n, st) == "M467"

\* dolt.py:464-467: the next table to add, or the commit
AfterMergeAdds(n, st) == IF n < Len(TablesToAdd(st)) THEN "M465" ELSE "M467"

MergeCmd == IF merge_args.squash THEN "merge --squash" ELSE "merge"

MergeInvoke ==
    /\ Begin("M428")
    /\ merge_branches' = <<>>
    /\ status' = DoltStatus(TRUE, NoMap, NoMap)
    /\ output' = <<>>
    /\ added' = 0
    /\ UNCHANGED <<repo, merge_args, loaderVars, cliVars, hostVars>>

\* dolt.py:428
MergeReadBranches ==
    /\ pc = "M428"
    /\ \E ok \in BOOLEAN :
        /\ cmds' = Append(cmds, Cmd("branch --list", NoArg, ok))
        /\ LET got == ParseBranches(BranchListOutput(repo))
           IN IF ~ok \/ ~got.ok
              THEN Raise("DoltException") /\ UNCHANGED merge_branches
              ELSE merge_branches' = got.names /\ pc' = "M429" /\ UNCHANGED outcome
    /\ UNCHANGED <<repo, pre, mid, calls, added, merge_args, status, output, loaderVars, cliVars, hostVars>>

\* dolt.py:429-433
MergeCheckPreconditions ==
    /\ pc = "M429"
    /\ \E ok \in BOOLEAN :
        /\ cmds' = Append(cmds, Cmd("status", NoArg, ok))
        /\ IF ~ok
           THEN Raise("DoltException")
           ELSE IF MergeRejectsDirty(ParseStatus(StatusOutput(repo)))
           THEN Raise("ValueError")
           ELSE IF MergeRejectsMissing(merge_args.branch, merge_branches)
           THEN Raise("ValueError")
           ELSE pc' = "M442" /\ UNCHANGED outcome
    /\ UNCHANGED <<repo, pre, mid, calls, added, mergeVars, loaderVars, cliVars, hostVars>>

\* dolt.py:436-459: run the merge and tell its outcome from the output
MergeExecute ==
    /\ pc = "M442"
    /\ LET b == merge_args.branch
           after(out) == IF IsFastForward(out) THEN "done"
                         ELSE IF IsConflict(out) THEN "M458" ELSE "M462"
       IN \/ /\ cmds' = Append(cmds, Cmd(MergeCmd, b, FALSE))
             /\ Raise("DoltException")
             /\ UNCHANGED <<repo, output>>
          \/ /\ b \in repo.branches
             /\ cmds' = Append(cmds, Cmd(MergeCmd, b, TRUE))
             /\ \E kind \in {"up to date", "fast-forward", "three-way"},
                   effect \in [Tables -> {"none", "merged", "conflict"}] :
                  /\ CASE kind = "up to date" ->
                            /\ UpToDate(repo, b)
                            /\ output' = UpToDateOutput
                            /\ UNCHANGED repo
                       [] kind = "fast-forward" ->
                            /\ CanFastForward(repo, b)
                            /\ output' = FastForwardOutput
                            /\ repo' = EnvFastForward(repo, b)
                       [] OTHER ->
                            /\ ~UpToDate(repo, b) /\ ~CanFastForward(repo, b)
                            /\ \E t \in Tables : effect[t] # "none"
                            /\ output' = ThreeWayOutput(effect)
                            /\ repo' = EnvThreeWay(repo, b, effect)
                  /\ pc' = after(output')
                  /\ outcome' = IF after(output') = "done" THEN "returned" ELSE outcome
    /\ UNCHANGED <<pre, mid, calls, added, merge_args, merge_branches, status, loaderVars, cliVars, hostVars>>

\* dolt.py:457-459
MergeAbort ==
    /\ pc = "M458"
    /\ \E ok \in BOOLEAN :
        /\ cmds' = Append(cmds, Cmd("merge --abort", NoArg, ok))
        /\ IF ok
           THEN repo' = EnvMergeAbort(repo) /\ Return
           ELSE UNCHANGED repo /\ Raise("DoltException")
    /\ UNCHANGED <<pre, mid, calls, added, mergeVars, loaderVars, cliVars, hostVars>>

\* dolt.py:462-464
MergeStatus ==
    /\ pc = "M462"
    /\ \E ok \in BOOLEAN :
        /\ cmds' = Append(cmds, Cmd("status", NoArg, ok))
        /\ IF ~ok
           THEN Raise("DoltException") /\ UNCHANGED status
           ELSE /\ status' = ParseStatus(StatusOutput(repo))
                /\ pc' = AfterMergeAdds(0, status')
                /\ UNCHANGED outcome
    /\ UNCHANGED <<repo, pre, mid, calls, added, merge_args, merge_branches, output, loaderVars, cliVars, hostVars>>

\* dolt.py:465 and 364-365: Dolt.add runs `add <table>` and then `status`
MergeAdd ==
    /\ pc = "M465"
    /\ LET table == TablesToAdd(status)[added + 1]
       IN \E res \in {"add fails", "status fails", "ok"} :
            CASE res = "add fails" ->
                   /\ cmds' = Append(cmds, Cmd("add", table, FALSE))
                   /\ Raise("DoltException")
                   /\ UNCHANGED <<repo, added>>
              [] res = "status fails" ->
                   /\ cmds' = cmds \o <<Cmd("add", table, TRUE), Cmd("status", NoArg, FALSE)>>
                   /\ Raise("DoltException")
                   /\ repo' = EnvAdd(repo, table)
                   /\ UNCHANGED added
              [] OTHER ->
                   /\ cmds' = cmds \o <<Cmd("add", table, TRUE), Cmd("status", NoArg, TRUE)>>
                   /\ repo' = EnvAdd(repo, table)
                   /\ added' = added + 1
                   /\ pc' = AfterMergeAdds(added + 1, status)
                   /\ UNCHANGED outcome
    /\ UNCHANGED <<pre, mid, calls, mergeVars, loaderVars, cliVars, hostVars>>

\* dolt.py:467: `commit -m <message>` exits nonzero when nothing is staged
MergeCommit ==
    /\ pc = "M467"
    /\ \E ok \in BOOLEAN :
        /\ ok => repo.staged # {}
        /\ cmds' = Append(cmds, Cmd("commit", merge_args.message, ok))
        /\ IF ok
           THEN repo' = EnvCommit(repo, merge_args.message) /\ Return
           ELSE UNCHANGED repo /\ Raise("DoltException")
    /\ UNCHANGED <<pre, mid, calls, added, mergeVars, loaderVars, cliVars, hostVars>>

\* ------------------------------------------------ the merge specification

Their == Commit("theirs", {"t1"}, <<>>)
Ours == Commit("ours", {"t1"}, <<>>)

\* the histories merge is called on: equal, feature ahead, diverged
MergeLogs ==
    {EmptyLog,
     [b \in Branches |-> IF b = "feature" THEN <<Their>> ELSE <<>>],
     [b \in Branches |-> IF b = "feature" THEN <<Their>> ELSE <<Ours>>]}

MergeRepos ==
    {[CleanRepo("master", {"master"}, EmptyLog) EXCEPT !.wtree = w] :
        w \in [Tables -> {"clean", "modified"}]}
    \cup
    {[CleanRepo("master", Branches, lg) EXCEPT !.wtree = w] :
        lg \in MergeLogs, w \in [Tables -> {"clean", "modified"}]}

MergeArgs == [branch : Branches, message : {"merge"}, squash : BOOLEAN]

MergeInit ==
    /\ repo \in MergeRepos
    /\ pre = repo
    /\ mid = [set |-> FALSE, repo |-> repo]
    /\ pc = "idle"
    /\ outcome = "none"
    /\ cmds = <<>>
    /\ calls = 0
    /\ loader = NoLoader
    /\ original_branch = NoBranch
    /\ current_branch_list = <<>>
    /\ tables_updated = <<>>
    /\ added = 0
    /\ merge_args \in MergeArgs
    /\ merge_branches = <<>>
    /\ status = DoltStatus(TRUE, NoMap, NoMap)
    /\ output = <<>>
    /\ call = NoCall
    /\ result = NoResult
    /\ tmpfile = NoFile
    /\ other = NoOther

MergeNext ==
    \/ MergeInvoke
    \/ MergeReadBranches
    \/ MergeCheckPreconditions
    \/ MergeExecute
    \/ MergeAbort
    \/ MergeStatus
    \/ MergeAdd
    \/ MergeCommit

MergeSpec == MergeInit /\ [][MergeNext]_vars

\* --------------------------------------------------- claims on Dolt.merge

\* the output of the merge command holds a CONFLICT line
HasConflictMarker(out) == \E i \in 1..Len(out) : out[i].k = "CONFLICT (content)"

\* positions of the merge command in the log of the call
MergeIdx == Issued("merge") \cup Issued("merge --squash")

\* the merge command ran and its output was read
MergeRan == pc \in {"M458", "M462", "M465", "M467", "done"} /\ \E i \in MergeIdx : cmds[i].ok

\* C9: after a merge command (on a clean working set) whose output holds a
\* CONFLICT marker, the next command merge() issues is `merge --abort`, it
\* issues no add and no commit and returns normally, and the aborted
\* repository has the head commit it had before the merge and a clean
\* working set.
C9_ConflictAborted ==
    (MergeRan /\ Dirty(pre) = {} /\ HasConflictMarker(output)) =>
        /\ Issued("add") \cup Issued("commit") = {}
        /\ \A i \in MergeIdx : i < Len(cmds) => cmds[i + 1].cmd = "merge --abort"
        /\ pc \in {"M458", "done"}
        /\ (Ended /\ \A i \in 1..Len(cmds) : cmds[i].ok) =>
              /\ outcome = "returned"
              /\ Issued("merge --abort") # {}
              /\ repo.log[repo.active] = pre.log[pre.active]
              /\ Dirty(repo) = {}

\* the commands merge() issued after the merge command, as <<command, argument>>
MergeTail ==
    LET first == CHOOSE i \in MergeIdx : TRUE
    IN [i \in 1..(Len(cmds) - first) |-> <<cmds[first + i].cmd, cmds[first + i].arg>>]

\* Dolt.add of each table in turn: `add <table>` and the status it returns
RECURSIVE AddsOf(_, _)
AddsOf(tables, i) ==
    IF i > Len(tables) THEN <<>>
    ELSE <<<<"add", tables[i]>>, <<"status", NoArg>>>> \o AddsOf(tables, i + 1)

\* what follows a three-way merge: the status, the adds of its tables, one commit
ThreeWayTail(st, message) ==
    <<<<"status", NoArg>>>> \o AddsOf(TablesToAdd(st), 1) \o <<<<"commit", message>>>>

\* C11: when the output of the merge command is neither the fast-forward nor
\* the conflict one, merge() issues `status`, then add for every table of
\* that status's added and modified mappings (added first), then one commit
\* with the message given, and nothing else; that status is taken of the
\* repository the merge left (its tables are the changed tables), and a
\* command that exits nonzero ends the call where it stands.
C11_ThreeWayAddsThenCommits ==
    (MergeRan /\ ~IsFastForward(output) /\ ~IsConflict(output)) =>
        /\ pc \in {"M462", "M465", "M467", "done"}
        /\ Issued("merge --abort") = {}
        /\ IF pc = "M462" \/ (pc = "done" /\ Len(MergeTail) <= 1)
           THEN IsPrefix(MergeTail, <<<<"status", NoArg>>>>)
           ELSE IsPrefix(MergeTail, ThreeWayTail(status, merge_args.message))
        /\ pc \in {"M465", "M467"} =>
              Range(TablesToAdd(status)) = Range(TablesToAdd(ParseStatus(StatusOutput(repo))))
        /\ (Ended /\ \A i \in 1..Len(cmds) : cmds[i].ok) =>
              /\ outcome = "returned"
              /\ MergeTail = ThreeWayTail(status, merge_args.message)
              /\ Cardinality(Issued("commit")) = 1

\* a three-way merge that changed a table: its add and the commit were issued
C11_Witness ==
    /\ Returned /\ MergeRan
    /\ ~IsFastForward(output) /\ ~IsConflict(output)
    /\ TablesToAdd(status) # <<>>
    /\ IssuedWith("add", "t1") # {}
    /\ cmds[Len(cmds)] = Cmd("commit", merge_args.message, TRUE)
    /\ Len(repo.log[repo.active]) = Len(pre.log[pre.active]) + 1

\* the output of the merge command holds the fast-forward marker
HasFastForwardMarker(out) == \E i \in 1..Len(out) : out[i].k = "Fast-forward"

\* C12: when the output of the merge command holds the fast-forward marker,
\* the merge command is the last command merge() issues (no status, add,
\* commit or merge --abort after it) and the call returns normally.
C12_FastForwardIsFinal ==
    (MergeRan /\ HasFastForwardMarker(output)) =>
        /\ Returned
        /\ \A i \in MergeIdx : i = Len(cmds)
        /\ Issued("add") \cup Issued("commit") \cup Issued("merge --abort") = {}
        /\ Cardinality(Issued("status")) = 1

\* a fast-forward happened: the active branch took the other's history
C12_Witness ==
    /\ Returned /\ MergeRan /\ HasFastForwardMarker(output)
    /\ repo.log[repo.active] = pre.log[merge_args.branch]
    /\ repo.log[repo.active] # pre.log[pre.active]

C10_WitnessMissing ==
    /\ Ended /\ outcome = "ValueError"
    /\ Dirty(pre) = {}
    /\ merge_args.branch \notin pre.branches
    /\ Len(cmds) = 2

\* -------------------------------------- direct calls of the client, dolt.py

\* what a call returned, and that it raised
Returns(v) == [kind |-> "returned", value |-> v]
Raised(exc) == [kind |-> "raised", exc |-> exc]

\* one call of a method of Dolt, from its first line to its return or
\* raise: the commands it issued, how it ended and what it gave back
CliCall(c, log, exc, res) ==
    /\ pc = "idle"
    /\ calls < MaxCalls
    /\ calls' = calls + 1
    /\ pre' = repo
    /\ mid' = [set |-> FALSE, repo |-> repo]
    /\ call' = c
    /\ cmds' = log
    /\ pc' = "done"
    /\ outcome' = exc
    /\ result' = res
    /\ UNCHANGED <<added, loaderVars, mergeVars, hostVars>>

\* ------------------------------------------------ Dolt.branch, dolt.py:630

\* None stands for an argument left out
None == NoBranch

BranchArgs ==
    [branch_name : {None} \cup Branches, new_branch : {None} \cup Branches,
     force : BOOLEAN, delete : BOOLEAN, copy : BOOLEAN, move : BOOLEAN]

\* the test of line 652 left out
BranchSwitchConflictNever(a) == FALSE

\* dolt.py:651-652
BranchSwitchConflict(a) == Cardinality({x \in {"delete", "copy", "move"} : a[x]}) > 1

\* dolt.py:655
BranchNothingAsked(a) == a.branch_name = None /\ ~a.delete /\ ~a.copy /\ ~a.move

Reject == [do |-> "ValueError", cmd |-> NoArg, arg |-> NoArg]
ListOnly == [do |-> "list", cmd |-> NoArg, arg |-> NoArg]
Run(c, a) == [do |-> "run", cmd |-> c, arg |-> a]

\* dolt.py:651-706: what branch() does with its arguments
BranchPlan(a) ==
    IF BranchSwitchConflict(a) THEN Reject
    ELSE IF BranchNothingAsked(a) THEN (IF a.force THEN Reject ELSE ListOnly)
    ELSE IF a.branch_name # None /\ ~(a.delete \/ a.copy \/ a.move) THEN Run("branch", a.branch_name)
    ELSE IF a.copy THEN (IF a.new_branch = None THEN Reject ELSE Run("branch --copy", a.new_branch))
    ELSE IF a.delete THEN (IF a.branch_name = None THEN Reject ELSE Run("branch --delete", a.branch_name))
    ELSE IF a.move THEN (IF a.new_branch = None THEN Reject ELSE Run("branch --move", a.new_branch))
    ELSE ListOnly

\* the branch a copy or a move starts from: the one named or the active one
BranchSource(r, a) == IF a.branch_name = None THEN r.active ELSE a.branch_name

\* whether the binary accepts the branch command
BranchCmdAccepted(r, plan, a) ==
    CASE plan.cmd = "branch" -> plan.arg \notin r.branches \/ (a.force /\ plan.arg # r.active)
      [] plan.cmd = "branch --delete" -> plan.arg \in r.branches /\ plan.arg # r.active
      [] OTHER -> /\ BranchSource(r, a) \in r.branches
                  /\ BranchSource(r, a) # plan.arg
                  /\ plan.arg \notin r.branches \/ a.force

\* `dolt branch [--copy|--delete|--move] ...`
EnvBranchCmd(r, plan, a) ==
    LET src == BranchSource(r, a)
    IN CASE plan.cmd = "branch" -> EnvBranchCreate(r, plan.arg)
         [] plan.cmd = "branch --delete" ->
                [r EXCEPT !.branches = @ \ {plan.arg}, !.log[plan.arg] = <<>>]
         [] plan.cmd = "branch --copy" ->
                [r EXCEPT !.branches = @ \cup {plan.arg}, !.log[plan.arg] = r.log[src]]
         [] OTHER ->
                [r EXCEPT !.branches = (@ \ {src}) \cup {plan.arg},
                          !.log = [b \in Branches |->
                                      IF b = plan.arg THEN r.log[src]
                                      ELSE IF b = src THEN <<>> ELSE r.log[b]],
                          !.active = IF r.active = src THEN plan.arg ELSE @]

\* dolt.py:662-664: execute_wrapper reads the listing after the command
BranchCall ==
    \E a \in BranchArgs :
        LET plan == BranchPlan(a)
            c == [fn |-> "branch", args |-> a]
            list(ok) == Cmd("branch --list", NoArg, ok)
        IN CASE plan.do = "ValueError" ->
                  CliCall(c, <<>>, "ValueError", Raised("ValueError")) /\ UNCHANGED repo
             [] plan.do = "list" ->
                  \E ok \in BOOLEAN :
                      LET got == ParseBranches(BranchListOutput(repo))
                      IN /\ IF ok /\ got.ok
                            THEN CliCall(c, <<list(ok)>>, "returned", Returns(got))
                            ELSE CliCall(c, <<list(ok)>>, "DoltException", Raised("DoltException"))
                         /\ UNCHANGED repo
             [] OTHER ->
                  \E res \in {"command fails", "list fails", "ok"} :
                      LET after == EnvBranchCmd(repo, plan, a)
                          got == ParseBranches(BranchListOutput(after))
                      IN /\ res # "command fails" => BranchCmdAccepted(repo, plan, a)
                         /\ CASE res = "command fails" ->
                                   /\ CliCall(c, <<Cmd(plan.cmd, plan.arg, FALSE)>>,
                                              "DoltException", Raised("DoltException"))
                                   /\ UNCHANGED repo
                              [] res = "list fails" ->
                                   /\ CliCall(c, <<Cmd(plan.cmd, plan.arg, TRUE), list(FALSE)>>,
                                              "DoltException", Raised("DoltException"))
                                   /\ repo' = after
                              [] OTHER ->
                                   /\ CliCall(c, <<Cmd(plan.cmd, plan.arg, TRUE), list(TRUE)>>,
                                              "returned", Returns(got))
                                   /\ repo' = after

\* ---------------------------------------------- Dolt.checkout, dolt.py:730

\* one table at most: <<>> stands for no table_or_tables
CheckoutArgs ==
    [branch : {None} \cup Branches, table_or_tables : SeqUpTo(Tables, 1),
     checkout_branch : BOOLEAN]

\* dolt.py:746
CheckoutConflict(a) == a.table_or_tables # <<>> /\ a.branch # None

\* `dolt checkout <table>`: the table goes back to what the head holds
EnvCheckoutTable(r, t) == [r EXCEPT !.wtree[t] = "clean", !.staged = @ \ {t}]

\* dolt.py:746-760
CheckoutCall ==
    \E a \in CheckoutArgs, ok \in BOOLEAN :
        LET c == [fn |-> "checkout", args |-> a]
            exc == IF ok THEN "returned" ELSE "DoltException"
            res == IF ok THEN Returns(None) ELSE Raised("DoltException")
        IN IF CheckoutConflict(a)
           THEN /\ ok
                /\ CliCall(c, <<>>, "ValueError", Raised("ValueError"))
                /\ UNCHANGED repo
           ELSE IF a.branch # None /\ a.checkout_branch
           THEN /\ ok => a.branch \notin repo.branches
                /\ CliCall(c, <<Cmd("checkout -b", a.branch, ok)>>, exc, res)
                /\ repo' = IF ok THEN EnvCheckout(EnvBranchCreate(repo, a.branch), a.branch) ELSE repo
           ELSE IF a.branch # None
           THEN /\ ok => a.branch \in repo.branches
                /\ CliCall(c, <<Cmd("checkout", a.branch, ok)>>, exc, res)
                /\ repo' = IF ok THEN EnvCheckout(repo, a.branch) ELSE repo
           ELSE IF a.table_or_tables # <<>>
           THEN /\ ok => repo.wtree[a.table_or_tables[1]] \in {"clean", "modified"}
                /\ CliCall(c, <<Cmd("checkout", a.table_or_tables[1], ok)>>, exc, res)
                /\ repo' = IF ok THEN EnvCheckoutTable(repo, a.table_or_tables[1]) ELSE repo
           ELSE /\ ~ok
                /\ CliCall(c, <<Cmd("checkout", NoArg, ok)>>, exc, res)
                /\ UNCHANGED repo

\* ------------------------- Dolt.schema_import and Dolt.table_import, dolt.py

\* how many of the mode switches are set: len(switch_count)
SwitchCount(a, names) == Cardinality({x \in names : a[x]})

SchemaImportArgs ==
    [table : Tables, create : BOOLEAN, update : BOOLEAN, replace : BOOLEAN,
     pks : BOOLEAN, dry_run : BOOLEAN]

\* the test of line 1263 made for no switch only
SchemaImportRejectsNone(a) == SwitchCount(a, {"create", "update", "replace"}) = 0

\* dolt.py:1262-1263
SchemaImportRejects(a) == SwitchCount(a, {"create", "update", "replace"}) # 1

\* dolt.py:1270-1276: create and replace need the primary keys
SchemaImportNeedsPks(a) == (a.create \/ a.replace) /\ ~a.pks

\* `dolt schema import`: create makes the table, update and replace alter it
EnvSchemaImport(r, a) ==
    IF a.dry_run THEN r
    ELSE [r EXCEPT !.wtree[a.table] =
            CASE @ = "absent" -> "new"
              [] @ = "clean" -> "modified"
              [] OTHER -> @]

\* dolt.py:1262-1295
SchemaImportCall ==
    \E a \in SchemaImportArgs, ok \in BOOLEAN :
        LET c == [fn |-> "schema_import", args |-> a]
        IN IF SchemaImportRejects(a) \/ SchemaImportNeedsPks(a)
           THEN /\ ok
                /\ CliCall(c, <<>>, "ValueError", Raised("ValueError"))
                /\ UNCHANGED repo
           ELSE /\ ok => /\ SwitchCount(a, {"create", "update", "replace"}) = 1
                         /\ a.create <=> repo.wtree[a.table] = "absent"
                /\ CliCall(c, <<Cmd("schema import", a.table, ok)>>,
                           IF ok THEN "returned" ELSE "DoltException",
                           IF ok THEN Returns(None) ELSE Raised("DoltException"))
                /\ repo' = IF ok THEN EnvSchemaImport(repo, a) ELSE repo

TableImportArgs ==
    [table : Tables, create_table : BOOLEAN, update_table : BOOLEAN,
     replace_table : BOOLEAN, pk : BOOLEAN, force : BOOLEAN]

\* the test of line 1353 made for no switch only
TableImportRejectsNone(a) ==
    SwitchCount(a, {"create_table", "update_table", "replace_table"}) = 0

\* dolt.py:1352-1353
TableImportRejects(a) ==
    SwitchCount(a, {"create_table", "update_table", "replace_table"}) # 1

\* dolt.py:1359-1366
TableImportNeedsPk(a) == (a.create_table \/ a.replace_table) /\ ~a.pk

\* whether the binary accepts the import: a table is created once, unless
\* forced, and only an existing table is updated or replaced
TableImportAccepted(r, a) ==
    /\ SwitchCount(a, {"create_table", "update_table", "replace_table"}) = 1
    /\ IF a.create_table THEN r.wtree[a.table] = "absent" \/ a.force
       ELSE r.wtree[a.table] # "absent"

\* dolt.py:1352-1382
TableImportCall ==
    \E a \in TableImportArgs, ok \in BOOLEAN, changed \in BOOLEAN :
        LET c == [fn |-> "table_import", args |-> a]
        IN IF TableImportRejects(a) \/ TableImportNeedsPk(a)
           THEN /\ ok /\ changed
                /\ CliCall(c, <<>>, "ValueError", Raised("ValueError"))
                /\ UNCHANGED repo
           ELSE /\ ok => TableImportAccepted(repo, a)
                /\ ~ok => changed
                /\ CliCall(c, <<Cmd("table import", a.table, ok)>>,
                           IF ok THEN "returned" ELSE "DoltException",
                           IF ok THEN Returns(None) ELSE Raised("DoltException"))
                /\ repo' = IF ok THEN EnvImport(repo, a.table, changed) ELSE repo

\* ------------------------------------ _execute and Dolt.execute, dolt.py:55

\* most arguments of a command line, most lines of an output
MaxArgs == 2
MaxLines == 3

\* an argument is a sequence of words: the blanks in it separate them
Words == {"log", "-n"}
Arguments == SeqUpTo(Words, 2)
ArgVectors == SeqUpTo(Arguments, MaxArgs) \ {<<>>}

\* dolt.py:57, " ".join(" ".join(args).split()): the words of all the
\* arguments, one blank between two of them
RECURSIVE StrArgs(_)
StrArgs(args) == IF args = <<>> THEN <<>> ELSE Head(args) \o StrArgs(Tail(args))

\* what the process answers: stdout and stderr as newline-terminated lines
\* of bytes, and the exit code
BadBytes == "\\xff"
Stdouts == {<<>>, <<"commit 1">>, <<"commit 1", "commit 2">>, <<BadBytes>>}
Stderrs == {<<>>, <<"error">>}
ExitCodes == {0, 1, 2}
Answers == [stdout : Stdouts, stderr : Stderrs, exitcode : ExitCodes]

\* dolt.py:67, out.decode("utf-8"): the text of the bytes, where they are UTF-8
Decodable(bytes) == BadBytes \notin Range(bytes)
Decode(bytes) == [i \in 1..Len(bytes) |-> bytes[i]]

\* dolt.py:298, output.split("\n"): the lines and the empty string after
\* the last newline
Split(text) == Append(text, "")

\* a DoltException that forgot the stderr
DoltExceptionNoStderr(exec_args, stdout, stderr, exitcode) ==
    [kind |-> "raised", exc |-> "DoltException", exec_args |-> exec_args,
     stdout |-> stdout, stderr |-> <<>>, exitcode |-> exitcode]

\* dolt.py:18-36
DoltException(exec_args, stdout, stderr, exitcode) ==
    [kind |-> "raised", exc |-> "DoltException", exec_args |-> exec_args,
     stdout |-> stdout, stderr |-> stderr, exitcode |-> exitcode]

\* dolt.py:55-67 and, for fn = "execute", 285-298: the result of one run of
\* the process
Execute(fn, args, proc) ==
    IF proc.exitcode # 0
    THEN DoltException(StrArgs(args), proc.stdout, proc.stderr, proc.exitcode)
    ELSE IF ~Decodable(proc.stdout) THEN Raised("UnicodeDecodeError")
    ELSE IF fn = "_execute" THEN Returns(Decode(proc.stdout))
    ELSE Returns(Split(Decode(proc.stdout)))

\* one call of _execute, or of Dolt.execute which hands its arguments on:
\* the process is started once (Popen, line 59) and waited for (line 60)
ExecuteCall ==
    \E fn \in {"_execute", "execute"}, args \in ArgVectors, proc \in Answers :
        LET res == Execute(fn, args, proc)
        IN /\ CliCall([fn |-> fn, args |-> args, proc |-> proc],
                      <<Cmd("dolt", NoArg, proc.exitcode = 0)>>,
                      IF res.kind = "returned" THEN "returned" ELSE res.exc, res)
           /\ UNCHANGED repo

\* ----------------------------- Dolt.status on any output, dolt.py:327-356

\* the lines `dolt status` may print: headers, the sentinel, table entries
StatusLines ==
    {SLine(k, NoArg) : k \in {"On branch", "nothing to commit, working tree clean",
                               "Changes to be committed", "Changes not staged for commit",
                               "Untracked files"}}
    \cup {SLine(k, t) : k \in {"modified", "new table", "both modified"}, t \in Tables}

StatusCall ==
    \E lines \in SeqUpTo(StatusLines, MaxLines), ok \in BOOLEAN :
        /\ ~ok => lines = <<>>
        /\ CliCall([fn |-> "status", stdout |-> lines],
                   <<Cmd("status", NoArg, ok)>>,
                   IF ok THEN "returned" ELSE "DoltException",
                   IF ok THEN Returns(ParseStatus(lines)) ELSE Raised("DoltException"))
        /\ UNCHANGED repo

\* ----------------------- Dolt._get_branches on any output, dolt.py:708-728

\* the lines `dolt branch --list --verbose` may print
BranchLines == {BLine(star, b) : star \in BOOLEAN, b \in Branches} \cup {EmptyLine}

GetBranchesCall ==
    \E lines \in SeqUpTo(BranchLines, MaxLines), ok \in BOOLEAN :
        LET got == ParseBranches(lines)
        IN /\ ~ok => lines = <<>>
           /\ CliCall([fn |-> "_get_branches", stdout |-> lines],
                      <<Cmd("branch --list", NoArg, ok)>>,
                      IF ok /\ got.ok THEN "returned" ELSE "DoltException",
                      IF ok /\ got.ok
                      THEN Returns([active |-> got.active, names |-> got.names])
                      ELSE Raised("DoltException"))
           /\ UNCHANGED repo

\* ------------------------------------------- the client's specifications

CliRepos ==
    {[CleanRepo("master", bs, EmptyLog) EXCEPT !.wtree = w] :
        bs \in {{"master"}, Branches}, w \in [Tables -> {"absent", "clean", "modified"}]}

\* the state before a direct call
CliStart(repos) ==
    /\ repo \in repos
    /\ pre = repo
    /\ mid = [set |-> FALSE, repo |-> repo]
    /\ pc = "idle"
    /\ outcome = "none"
    /\ cmds = <<>>
    /\ calls = 0
    /\ loader = NoLoader
    /\ original_branch = NoBranch
    /\ current_branch_list = <<>>
    /\ tables_updated = <<>>
    /\ added = 0
    /\ merge_args = NoMerge
    /\ merge_branches = <<>>
    /\ status = DoltStatus(TRUE, NoMap, NoMap)
    /\ output = <<>>
    /\ call = NoCall
    /\ result = NoResult
    /\ tmpfile = NoFile
    /\ other = NoOther

\* the calls that validate their arguments before they spawn a process
CliInit == CliStart(CliRepos)

CliNext ==
    \/ BranchCall
    \/ CheckoutCall
    \/ SchemaImportCall
    \/ TableImportCall

CliSpec == CliInit /\ [][CliNext]_vars

\* the calls whose result is a function of what the process answers
ProcessInit == CliStart({CleanRepo("master", Branches, EmptyLog)})

ProcessNext ==
    \/ ExecuteCall
    \/ StatusCall
    \/ GetBranchesCall

ProcessSpec == ProcessInit /\ [][ProcessNext]_vars

\* ---------------------------------------- claims on the client's calls

\* the call ended with the precondition error before any process was
\* spawned, the repository untouched
RejectedUnspawned ==
    /\ Ended /\ outcome = "ValueError"
    /\ cmds = <<>>
    /\ repo = pre
    /\ repo.branches = pre.branches /\ repo.active = pre.active

\* C13: branch() with more than one of delete, copy, move set, or with
\* force set and none of branch_name, delete, copy, move given, and
\* checkout() with both a branch and a table given, end with ValueError
\* having spawned no process: the command log of the call is empty, the
\* branch list and the active branch are as before.
C13_ExclusiveArgumentsRejected ==
    /\ (call.fn = "branch" /\
          \/ (call.args.delete /\ call.args.copy)
          \/ (call.args.delete /\ call.args.move)
          \/ (call.args.copy /\ call.args.move)
          \/ /\ call.args.force /\ call.args.branch_name = None
             /\ ~call.args.delete /\ ~call.args.copy /\ ~call.args.move)
       => RejectedUnspawned
    /\ (call.fn = "checkout" /\ call.args.branch # None /\ call.args.table_or_tables # <<>>)
       => RejectedUnspawned

\* branch() asked to copy and to delete at once
C13_Witness ==
    /\ call.fn = "branch" /\ call.args.copy /\ call.args.delete /\ ~call.args.move
    /\ call.args.branch_name = "feature" /\ "feature" \in pre.branches
    /\ RejectedUnspawned

\* C13, the other cases: force alone, and checkout of a branch and a table
C13_WitnessForce ==
    /\ call.fn = "branch" /\ call.args.force /\ BranchNothingAsked(call.args)
    /\ RejectedUnspawned

C13_WitnessCheckout ==
    /\ call.fn = "checkout" /\ call.args.branch = "feature"
    /\ call.args.table_or_tables = <<"t1">>
    /\ RejectedUnspawned

\* C14: schema_import and table_import called with two or more of their
\* mode switches (create, update, replace) set raise ValueError before any
\* process is spawned: the command log of the call is empty.
C14_TwoImportModesRejected ==
    /\ (call.fn = "schema_import"
          /\ SwitchCount(call.args, {"create", "update", "replace"}) >= 2)
       => RejectedUnspawned
    /\ (call.fn = "table_import"
          /\ SwitchCount(call.args, {"create_table", "update_table", "replace_table"}) >= 2)
       => RejectedUnspawned

C14_Witness ==
    /\ call.fn = "table_import"
    /\ call.args.create_table /\ call.args.update_table /\ call.args.pk
    /\ RejectedUnspawned

C14_WitnessSchema ==
    /\ call.fn = "schema_import"
    /\ call.args.update /\ call.args.replace /\ call.args.pks
    /\ RejectedUnspawned

\* ------------------------------- claims on the parsers and the executor

\* status() returned a value for the output the process printed
StatusReturned == call.fn = "status" /\ Ended /\ outcome = "returned"

\* a `modified:` or `new table:` entry
IsChangeMarker(line) == line.k \in {"modified", "new table"}

\* C15: for every status output without a change-marker line (no
\* `modified:` and no `new table:` entry) status() returns is_clean = TRUE
\* and both mappings empty.
C15_NoMarkersIsClean ==
    (StatusReturned /\ \A i \in 1..Len(call.stdout) : ~IsChangeMarker(call.stdout[i]))
        => result.value = DoltStatus(TRUE, NoMap, NoMap)

\* C16: every value status() returns has is_clean true if and only if the
\* modified-tables and the added-tables mappings are both empty.
C16_CleanIffNoChanges ==
    StatusReturned =>
        (result.value.is_clean <=>
            (result.value.modified_tables = NoMap /\ result.value.added_tables = NoMap))

\* the lines of the listing that carry the active marker
Starred(lines) == {i \in 1..Len(lines) : lines[i].star}

\* C17: for every branch listing the parser either returns a listing whose
\* active branch is the one starred line's, or fails; it fails on a listing
\* with no starred line and on a listing with more than one.
C17_OneActiveOrParseError ==
    (call.fn = "_get_branches" /\ Ended /\ cmds[1].ok) =>
        /\ Cardinality(Starred(call.stdout)) # 1 => outcome = "DoltException"
        /\ outcome = "returned" =>
              \E i \in Starred(call.stdout) :
                  /\ Starred(call.stdout) = {i}
                  /\ result.value.active = call.stdout[i].name
                  /\ result.value.active \in Range(result.value.names)

\* the executor was called and the process has exited
Executed == call.fn \in {"_execute", "execute"} /\ Ended

\* C18 as stated: the executor spawns the process once; on exit code 0 it
\* returns the captured stdout (Dolt.execute: its lines), on any other exit
\* code it raises a failure from which the argument vector, the stdout, the
\* stderr and the exit code can be read.
C18_FailureCarriesArgumentVector ==
    Executed =>
        /\ Len(cmds) = 1
        /\ call.proc.exitcode = 0 =>
              result = Returns(IF call.fn = "_execute" THEN call.proc.stdout
                               ELSE Split(call.proc.stdout))
        /\ call.proc.exitcode # 0 =>
              /\ result.kind = "raised" /\ outcome = "DoltException"
              /\ result.stdout = call.proc.stdout
              /\ result.stderr = call.proc.stderr
              /\ result.exitcode = call.proc.exitcode
              /\ \A v \in ArgVectors : StrArgs(v) = result.exec_args => v = call.args

\* C18 amended: the executor spawns the process once and never again; on
\* exit code 0 it returns the stdout decoded as UTF-8 (Dolt.execute: split
\* into lines), or raises the decoding error when the stdout is not UTF-8;
\* on any other exit code it raises DoltException carrying the arguments
\* joined into one blank-separated string, the stdout and stderr as
\* captured, and the exit code.
C18_ExecutorContract ==
    Executed =>
        /\ Len(cmds) = 1
        /\ repo = pre
        /\ (call.proc.exitcode = 0 /\ Decodable(call.proc.stdout)) =>
              /\ outcome = "returned"
              /\ result = Returns(IF call.fn = "_execute" THEN Decode(call.proc.stdout)
                                  ELSE Split(Decode(call.proc.stdout)))
        /\ (call.proc.exitcode = 0 /\ ~Decodable(call.proc.stdout)) =>
              outcome = "UnicodeDecodeError"
        /\ call.proc.exitcode # 0 =>
              /\ outcome = "DoltException"
              /\ result.kind = "raised"
              /\ result.exec_args = StrArgs(call.args)
              /\ result.stdout = call.proc.stdout
              /\ result.stderr = call.proc.stderr
              /\ result.exitcode = call.proc.exitcode

\* a failing process whose stdout and stderr are not empty
C18_Witness ==
    /\ Executed /\ outcome = "DoltException"
    /\ call.proc.exitcode = 2
    /\ call.proc.stdout # <<>> /\ call.proc.stderr # <<>>
    /\ Len(call.args) = 2 /\ Len(result.exec_args) = 3

\* C18, the other case: exit code 0 and the lines of the output returned
C18_WitnessReturned ==
    /\ Executed /\ outcome = "returned" /\ call.fn = "execute"
    /\ result.value = <<"commit 1", "commit 2", "">>

\* ------------------------------------- the write functions, write/write.py

\* write.py:16-22
ImportModes == {"create", "force_create", "replace", "update"}
IMPORT_MODES_TO_FLAGS ==
    [m \in ImportModes |->
        CASE m = "create" -> <<"-c">>
          [] m = "force_create" -> <<"-f", "-c">>
          [] m = "replace" -> <<"-r">>
          [] OTHER -> <<"-u">>]

\* `dolt ls --verbose`: the tables of the working set
LsLine(k, t) == [k |-> k, t |-> t]
LsOutput(r) ==
    LET present(t) == r.wtree[t] # "absent"
        pick == SelectSeq(TableOrder, present)
    IN IF pick = <<>>
       THEN <<LsLine("No tables in working set", NoArg), LsLine("", NoArg), LsLine("", NoArg)>>
       ELSE <<LsLine("Tables in working set:", NoArg)>>
            \o [i \in 1..Len(pick) |-> LsLine("table", pick[i])]
            \o <<LsLine("", NoArg)>>

\* dolt.py:1186-1199: the names of the tables Dolt.ls returns
ParseLs(lines) ==
    IF Len(lines) = 3 /\ lines[1].k = "No tables in working set" THEN {}
    ELSE {lines[i].t : i \in {j \in 1..Len(lines) : lines[j].k = "table"}}

\* line 229 with the two modes exchanged
ResolveImportModeSwapped(names, table) == IF table \in names THEN "create" ELSE "update"

\* write.py:229-234, and loaders.py:67 for a writer without a mode
ResolveImportMode(names, table) == IF table \in names THEN "update" ELSE "create"

\* write.py:226
ImportModeInvalid(mode) == mode # None /\ mode \notin ImportModes

\* whether the binary accepts the import with these flags
ImportAccepted(r, table, mode) ==
    CASE mode = "create" -> r.wtree[table] = "absent"
      [] mode = "force_create" -> TRUE
      [] OTHER -> r.wtree[table] # "absent"

\* the table import command of line 213, with the flags it was given and
\* whether --pk was among them (lines 210-211)
ImportCmd(table, mode, pk, ok) ==
    [cmd |-> "table import", arg |-> table, ok |-> ok,
     flags |-> IMPORT_MODES_TO_FLAGS[mode], pk |-> pk]

\* a commit message is the sequence of its pieces; <<>> stands for a
\* message that is None or empty
NoMessage == <<>>
DefaultMessage(table, mode) == <<"Committing write to table ", table, " in ", mode, " mode">>

\* a write that always took the default message
WriteMessageDefault(a, mode) == DefaultMessage(a.table, mode)

\* write.py:216, commit_message or the default
WriteMessage(a, mode) ==
    IF a.commit_message # NoMessage THEN a.commit_message ELSE DefaultMessage(a.table, mode)

\* the length test of line 90 left out
ColumnsRejectedNever(fn, a) == FALSE

\* write.py:89-91: write_columns refuses columns of different lengths
\* before it opens the file
ColumnsRejected(fn, a) == fn = "write_columns" /\ ~a.columns_equal

\* a finally clause that leaves the file where it is
WriteFinallyKeeps(f) == f

\* write.py:219-221: the finally clause removes the staging file if it exists
WriteFinally(f) == IF f = "written" THEN "removed" ELSE f

\* the arguments of write_file and write_columns (write_rows and
\* write_pandas hand them on as write_file does), and of the writer that
\* get_bulk_table_writer(table, get_data, pk_cols, import_mode) returns
WriteArgs ==
    [table : Tables, import_mode : {None, "bogus"} \cup ImportModes,
     primary_key : BOOLEAN, commit : BOOLEAN, commit_message : {NoMessage, <<"msg">>},
     columns_equal : BOOLEAN]

WriteInvoke ==
    \E fn \in {"write_file", "write_columns", "bulk_writer"}, a \in WriteArgs :
        /\ fn = "bulk_writer" => ~a.commit
        /\ ~a.commit => a.commit_message = NoMessage
        /\ fn # "write_columns" => a.columns_equal
        /\ pc = "idle"
        /\ Begin(IF fn = "bulk_writer" THEN "B67" ELSE "W202")
        /\ call' = [fn |-> fn, args |-> a, import_mode |-> a.import_mode]
        /\ result' = NoResult
        /\ tmpfile' = NoFile
        /\ UNCHANGED <<repo, added, loaderVars, mergeVars, other>>

\* loaders.py:67-69: the writer picks a mode if it was given none, then
\* fetches its data
BulkWriterPickMode ==
    /\ pc = "B67"
    /\ \E res \in {"ls fails", "get_data raises", "ok"} :
        LET asks == call.args.import_mode = None
            ls(ok) == IF asks THEN <<Cmd("ls", NoArg, ok)>> ELSE <<>>
        IN /\ res = "ls fails" => asks
           /\ cmds' = cmds \o ls(res # "ls fails")
           /\ CASE res = "ls fails" -> Raise("DoltException") /\ UNCHANGED call
                [] res = "get_data raises" -> Raise("Exception") /\ UNCHANGED call
                [] OTHER ->
                     /\ call' = [call EXCEPT !.import_mode =
                                    IF asks
                                    THEN ResolveImportMode(ParseLs(LsOutput(repo)), call.args.table)
                                    ELSE @]
                     /\ pc' = "W202"
                     /\ UNCHANGED outcome
    /\ UNCHANGED <<repo, pre, mid, calls, added, result, loaderVars, mergeVars, hostVars>>

\* write.py:202, 224-236: _get_import_mode_and_flags
WriteGetImportMode ==
    /\ pc = "W202"
    /\ IF ImportModeInvalid(call.import_mode)
       THEN Raise("ValueError") /\ UNCHANGED <<cmds, call>>
       ELSE \E ok \in BOOLEAN :
              /\ cmds' = Append(cmds, Cmd("ls", NoArg, ok))
              /\ IF ok
                 THEN /\ call' = [call EXCEPT !.import_mode =
                                    ResolveImportMode(ParseLs(LsOutput(repo)), call.args.table)]
                      /\ pc' = "W206"
                      /\ UNCHANGED outcome
                 ELSE Raise("DoltException") /\ UNCHANGED call
    /\ UNCHANGED <<repo, pre, mid, calls, added, result, loaderVars, mergeVars, hostVars>>

\* write.py:204-208: the name of the staging file is drawn and the data
\* written to it; an exception of the writer leaves through the finally
WriteStage ==
    /\ pc = "W206"
    /\ IF ColumnsRejected(call.fn, call.args)
       THEN Raise("ValueError") /\ tmpfile' = WriteFinally(tmpfile)
       ELSE \E ok \in BOOLEAN :
              IF ok THEN tmpfile' = "written" /\ pc' = "W213" /\ UNCHANGED outcome
              ELSE Raise("Exception") /\ tmpfile' = WriteFinally("written")
    /\ UNCHANGED <<repo, pre, mid, cmds, calls, added, call, result, loaderVars,
                   mergeVars, other>>

\* write.py:209-215: the import with the flags of the mode
WriteImport ==
    /\ pc = "W213"
    /\ \E ok \in BOOLEAN, changed \in BOOLEAN :
        /\ ok => ImportAccepted(repo, call.args.table, call.import_mode)
        /\ ~ok => changed
        /\ cmds' = Append(cmds, ImportCmd(call.args.table, call.import_mode,
                                          call.args.primary_key, ok))
        /\ IF ~ok
           THEN Raise("DoltException") /\ UNCHANGED repo /\ tmpfile' = WriteFinally(tmpfile)
           ELSE /\ repo' = EnvImport(repo, call.args.table, changed)
                /\ IF call.args.commit
                   THEN pc' = "W217" /\ UNCHANGED <<outcome, tmpfile>>
                   ELSE Return /\ tmpfile' = WriteFinally(tmpfile)
    /\ UNCHANGED <<pre, mid, calls, added, call, result, loaderVars, mergeVars, other>>

\* write.py:217, dolt.py:364-365: Dolt.add runs `add <table>` and `status`
WriteAdd ==
    /\ pc = "W217"
    /\ \E res \in {"add fails", "status fails", "ok"} :
        LET table == call.args.table
        IN CASE res = "add fails" ->
                  /\ cmds' = Append(cmds, Cmd("add", table, FALSE))
                  /\ Raise("DoltException")
                  /\ tmpfile' = WriteFinally(tmpfile)
                  /\ UNCHANGED repo
             [] res = "status fails" ->
                  /\ cmds' = cmds \o <<Cmd("add", table, TRUE), Cmd("status", NoArg, FALSE)>>
                  /\ Raise("DoltException")
                  /\ tmpfile' = WriteFinally(tmpfile)
                  /\ repo' = EnvAdd(repo, table)
             [] OTHER ->
                  /\ cmds' = cmds \o <<Cmd("add", table, TRUE), Cmd("status", NoArg, TRUE)>>
                  /\ repo' = EnvAdd(repo, table)
                  /\ pc' = "W218"
                  /\ UNCHANGED <<outcome, tmpfile>>
    /\ UNCHANGED <<pre, mid, calls, added, call, result, loaderVars, mergeVars, other>>

\* write.py:218-221: `commit -m <message>` exits nonzero when nothing is
\* staged; then the finally clause
WriteCommit ==
    /\ pc = "W218"
    /\ \E ok \in BOOLEAN :
        LET msg == WriteMessage(call.args, call.import_mode)
        IN /\ ok => repo.staged # {}
           /\ cmds' = Append(cmds, Cmd("commit", msg, ok))
           /\ tmpfile' = WriteFinally(tmpfile)
           /\ IF ok
              THEN repo' = EnvCommit(repo, msg) /\ Return
              ELSE UNCHANGED repo /\ Raise("DoltException")
    /\ UNCHANGED <<pre, mid, calls, added, call, result, loaderVars, mergeVars, other>>

\* the repositories a write is called on: any working set, any of its
\* changed tables staged; a write that follows another starts from one of them
WriteRepos ==
    LET all == {[CleanRepo("master", {"master"}, EmptyLog) EXCEPT !.wtree = w, !.staged = st] :
                   w \in [Tables -> {"absent", "clean", "modified"}], st \in SUBSET Tables}
    IN {r \in all : r.staged \subseteq Dirty(r)}

WriteInit == CliStart(WriteRepos)

WriteNext ==
    \/ WriteInvoke
    \/ BulkWriterPickMode
    \/ WriteGetImportMode
    \/ WriteStage
    \/ WriteImport
    \/ WriteAdd
    \/ WriteCommit

WriteSpec == WriteInit /\ [][WriteNext]_vars

\* ---------------------------------------- claims on the write functions

WriteFns == {"write_file", "write_columns", "bulk_writer"}

\* the table import commands the call issued
Imports == {i \in 1..Len(cmds) : cmds[i].cmd = "table import"}

\* the flags of the mode that fits the listing at the start of the call
ListingFlags ==
    IF pre.wtree[call.args.table] = "absent" THEN <<"-c">> ELSE <<"-u">>

\* C19: a write called without an import mode imports with the flags of
\* `create` when the table is absent from the table listing and with those
\* of `update` when it is present; it issues one import, after the listing.
C19_AutoModeFromListing ==
    (call.fn \in WriteFns /\ call.args.import_mode = None) =>
        /\ \A i \in Imports : cmds[i].flags = ListingFlags /\ cmds[i].arg = call.args.table
        /\ \A i \in Imports : \E j \in Issued("ls") : j < i /\ cmds[j].ok
        /\ Cardinality(Imports) <= 1
        /\ Returned => Cardinality(Imports) = 1

\* a write without a mode created its table
C19_Witness ==
    /\ Returned /\ call.fn = "write_file" /\ call.args.import_mode = None
    /\ pre.wtree[call.args.table] = "absent"
    /\ \E i \in Imports : cmds[i].flags = <<"-c">> /\ cmds[i].ok
    /\ repo.wtree[call.args.table] = "new"

\* C19, the other case: the table is there and is updated
C19_WitnessUpdate ==
    /\ Returned /\ call.args.import_mode = None
    /\ pre.wtree[call.args.table] # "absent"
    /\ \E i \in Imports : cmds[i].flags = <<"-u">> /\ cmds[i].ok

\* C20: a write called with a valid explicit import mode imports with
\* exactly the flags of that mode, whether or not the table exists; the
\* mode is taken from the table listing only when none is given.
C20_ExplicitModeHonoured ==
    (call.fn \in WriteFns /\ call.args.import_mode \in ImportModes) =>
        \A i \in Imports : cmds[i].flags = IMPORT_MODES_TO_FLAGS[call.args.import_mode]

\* a write is under way or has ended
Writing == call.fn \in WriteFns

\* the adds and the commits the call issued
Staging == Issued("add") \cup Issued("commit")

\* C21: a write whose import mode comes out as create or replace and that
\* gives no primary key ends with the configuration error and has spawned
\* no process: no listing, no table import, no other command, and no
\* staging file is left.
C21_KeylessCreateRejectedUnspawned ==
    (Writing /\ Ended /\ ~call.args.primary_key
       /\ \/ call.args.import_mode \in {"create", "replace"}
          \/ (call.args.import_mode = None /\ pre.wtree[call.args.table] = "absent"))
    => /\ outcome = "ValueError"
       /\ cmds = <<>>
       /\ tmpfile # "written"

\* C22: write_columns given columns of different lengths never writes the
\* staging file and issues no table import, no add and no commit; the call
\* ends with the ValueError of line 91 (unless the listing before it
\* failed), the repository as it was.
C22_UnequalColumnsRejected ==
    (call.fn = "write_columns" /\ ~call.args.columns_equal) =>
        /\ tmpfile = NoFile
        /\ Imports \cup Staging = {}
        /\ repo = pre
        /\ pc \in {"W202", "W206", "done"}
        /\ Ended => outcome \in {"ValueError", "DoltException"}
        /\ (Ended /\ \A i \in 1..Len(cmds) : cmds[i].ok) => outcome = "ValueError"

\* unequal columns, a valid mode: the listing ran, then the writer refused
C22_Witness ==
    /\ call.fn = "write_columns" /\ ~call.args.columns_equal
    /\ call.args.import_mode = "update"
    /\ Ended /\ outcome = "ValueError"
    /\ cmds = <<Cmd("ls", NoArg, TRUE)>>

\* C23: when a write call has ended, however it ended, the staging file it
\* made is gone.
C23_StagingFileRemoved ==
    (Writing /\ Ended) => tmpfile # "written"

\* the table import failed after the file was written: the file was removed
C23_Witness ==
    /\ Writing /\ Ended /\ outcome = "DoltException"
    /\ \E i \in Imports : ~cmds[i].ok
    /\ tmpfile = "removed"

\* C23, the other exits: the writer raised, the add failed, the commit
\* failed, the write returned
C23_WitnessStage ==
    Writing /\ outcome = "Exception" /\ call.fn = "write_file" /\ tmpfile = "removed"

C23_WitnessAdd ==
    Writing /\ Ended /\ tmpfile = "removed" /\ \E i \in Issued("add") : ~cmds[i].ok

C23_WitnessCommit ==
    Writing /\ Ended /\ tmpfile = "removed" /\ \E i \in Issued("commit") : ~cmds[i].ok

C23_WitnessReturned ==
    Writing /\ Returned /\ tmpfile = "removed"

\* what a write with commit = TRUE issues after its import
CommitTail ==
    <<<<"add", call.args.table>>, <<"status", NoArg>>,
      <<"commit", IF call.args.commit_message # NoMessage THEN call.args.commit_message
                  ELSE DefaultMessage(call.args.table, call.import_mode)>>>>

\* the commands after the import, as <<command, argument>>
WriteTail ==
    LET first == CHOOSE i \in Imports : TRUE
    IN [i \in 1..(Len(cmds) - first) |-> <<cmds[first + i].cmd, cmds[first + i].arg>>]

\* C24: with commit = TRUE a write issues, after its successful import,
\* one add of the target table and then one commit with the caller's
\* message, or the default one when none was given, in this order and
\* nothing else; it stages no other table; with commit = FALSE, or when the
\* import failed, it issues no add and no commit.
C24_CommitStagesTargetOnly ==
    Writing =>
        /\ (~call.args.commit \/ \A i \in Imports : ~cmds[i].ok) => Staging = {}
        /\ \A i \in Issued("add") : cmds[i].arg = call.args.table
        /\ repo.staged \ pre.staged \subseteq {call.args.table}
        /\ (call.args.commit /\ \E i \in Imports : cmds[i].ok) =>
              /\ IsPrefix(WriteTail, CommitTail)
              /\ (Ended /\ \A i \in 1..Len(cmds) : cmds[i].ok) =>
                    (Returned /\ WriteTail = CommitTail)

\* a write that committed with the caller's message while another table
\* was changed and not staged
C24_Witness ==
    /\ Writing /\ Returned /\ call.args.commit
    /\ call.args.commit_message = <<"msg">>
    /\ cmds[Len(cmds)] = Cmd("commit", <<"msg">>, TRUE)
    /\ \E t \in Tables \ {call.args.table} : t \in Dirty(repo) /\ t \notin repo.staged

\* C24, the default message
C24_WitnessDefault ==
    /\ Writing /\ Returned /\ call.args.commit
    /\ call.args.commit_message = NoMessage
    /\ cmds[Len(cmds)].arg = <<"Committing write to table ", "t1", " in ", "create", " mode">>

\* ----------------------- DoltCommit.parse_dolt_log_table, dolt.py:163-181

\* most rows of a log table
MaxRows == 3

\* the rows of the log query: a commit and one of its parents, None for
\* the NULL the outer join gives a commit without ancestors
CommitIds == {"C2", "C3"}
ParentIds == {None, "C1", "C2"}
LogRows == [commit_hash : CommitIds, parent_hash : ParentIds]

\* parent_or_parents: one parent (a str, or None), or a tuple of two
Single(p) == [tuple |-> FALSE, first |-> p, second |-> None]
Pair(a, b) == [tuple |-> TRUE, first |-> a, second |-> b]

\* dolt.py:171-178
DoltCommit(row) == [ref |-> row.commit_hash, parent_or_parents |-> Single(row.parent_hash)]

\* the isinstance test of line 130 left out
IsMergeNever(c) == FALSE

\* dolt.py:126-127, 130
IsMerge(c) == c.parent_or_parents.tuple

\* dolt.py:129-135: error tells that the record already holds a pair
AppendMergeParent(c, other_merge_parent) ==
    IF IsMerge(c) THEN [error |-> TRUE, commit |-> c]
    ELSE IF c.parent_or_parents.first = None THEN [error |-> FALSE, commit |-> c]
    ELSE [error |-> FALSE,
          commit |-> [c EXCEPT !.parent_or_parents = Pair(@.first, other_merge_parent)]]

\* the membership test of line 168 left out
RefSeenNever(commits, ref) == FALSE

\* dolt.py:168, ref in commits
RefSeen(commits, ref) == \E i \in 1..Len(commits) : commits[i].ref = ref

\* the place of the record of ref in the ordered dict
RefAt(commits, ref) == CHOOSE i \in 1..Len(commits) : commits[i].ref = ref

Folding(commits) == [kind |-> "folding", value |-> commits]

\* dolt.py:165: commits = OrderedDict()
LogInvoke ==
    \E rows \in SeqUpTo(LogRows, MaxRows) :
        /\ pc = "idle"
        /\ Begin("P166")
        /\ call' = [fn |-> "parse_dolt_log_table", rows |-> rows, next |-> 1]
        /\ result' = Folding(<<>>)
        /\ UNCHANGED <<repo, added, loaderVars, mergeVars, hostVars>>

\* dolt.py:166-181: the next row of the loop, or the return after the last
LogFoldRow ==
    /\ pc = "P166"
    /\ LET commits == result.value
       IN IF call.next > Len(call.rows)
          THEN Return /\ result' = Returns(commits) /\ UNCHANGED call
          ELSE LET row == call.rows[call.next]
                   ref == row.commit_hash
               IN IF RefSeen(commits, ref)
                  THEN LET got == AppendMergeParent(commits[RefAt(commits, ref)], row.parent_hash)
                       IN IF got.error
                          THEN Raise("ValueError") /\ UNCHANGED <<call, result>>
                          ELSE /\ result' = Folding([commits EXCEPT ![RefAt(commits, ref)] = got.commit])
                               /\ call' = [call EXCEPT !.next = @ + 1]
                               /\ UNCHANGED <<pc, outcome>>
                  ELSE /\ result' = Folding(Append(commits, DoltCommit(row)))
                       /\ call' = [call EXCEPT !.next = @ + 1]
                       /\ UNCHANGED <<pc, outcome>>
    /\ UNCHANGED <<repo, pre, mid, cmds, calls, added, loaderVars, mergeVars, hostVars>>

LogInit == CliStart({CleanRepo("master", Branches, EmptyLog)})

LogNext ==
    \/ LogInvoke
    \/ LogFoldRow

LogSpec == LogInit /\ [][LogNext]_vars

\* ------------------------------------------- claims on the log parser

ParsingLog == call.fn = "parse_dolt_log_table"

\* the rows read so far that name the commit, in order
RowsOf(ref) ==
    LET is(row) == row.commit_hash = ref
    IN SelectSeq(SubSeq(call.rows, 1, IF Ended /\ outcome = "returned"
                                      THEN Len(call.rows) ELSE call.next - 1), is)

\* the commit ids of the rows, each once, in the order of first appearance
RECURSIVE FirstSeen(_, _)
FirstSeen(rows, seen) ==
    IF rows = <<>> THEN <<>>
    ELSE IF Head(rows).commit_hash \in seen THEN FirstSeen(Tail(rows), seen)
    ELSE <<Head(rows).commit_hash>> \o FirstSeen(Tail(rows), seen \cup {Head(rows).commit_hash})

\* one record per commit id, in the order of first appearance
OneRecordEach(commits) ==
    [i \in 1..Len(commits) |-> commits[i].ref] = FirstSeen(call.rows, {})

\* C25 as stated: the parser returns one record per distinct commit id, in
\* first-seen order, and the record of every commit id that repeats holds
\* the pair (parent of its first row, parent of its second row).
C25_RepeatedCommitGetsPair ==
    (ParsingLog /\ Returned) =>
        /\ OneRecordEach(result.value)
        /\ \A i \in 1..Len(result.value) :
              LET c == result.value[i]
                  mine == RowsOf(c.ref)
              IN c.parent_or_parents =
                    IF Len(mine) >= 2 THEN Pair(mine[1].parent_hash, mine[2].parent_hash)
                    ELSE Single(mine[1].parent_hash)

\* C25 amended: the parser returns one record per distinct commit id, in
\* first-seen order; the record of a commit id that repeats holds the pair
\* (parent of its first row, parent of its second row) when the parent of
\* its first row is not empty, and otherwise keeps its empty parent, the
\* repeating rows being ignored.
C25_RepeatedCommitFolded ==
    (ParsingLog /\ Returned) =>
        /\ OneRecordEach(result.value)
        /\ \A i \in 1..Len(result.value) :
              LET c == result.value[i]
                  mine == RowsOf(c.ref)
              IN c.parent_or_parents =
                    IF Len(mine) >= 2 /\ mine[1].parent_hash # None
                    THEN Pair(mine[1].parent_hash, mine[2].parent_hash)
                    ELSE Single(mine[1].parent_hash)

\* the rows (C2,C1), (C3,C1), (C3,C2): one C3 record with the pair (C1, C2)
C25_Witness ==
    /\ ParsingLog /\ Returned
    /\ call.rows = <<[commit_hash |-> "C2", parent_hash |-> "C1"],
                     [commit_hash |-> "C3", parent_hash |-> "C1"],
                     [commit_hash |-> "C3", parent_hash |-> "C2"]>>
    /\ result.value = <<[ref |-> "C2", parent_or_parents |-> Single("C1")],
                        [ref |-> "C3", parent_or_parents |-> Pair("C1", "C2")]>>

\* C25, the other case: a repeat after an empty first parent is ignored
C25_WitnessIgnored ==
    /\ ParsingLog /\ Returned
    /\ Len(call.rows) = 2 /\ call.rows[1].parent_hash = None /\ call.rows[2].parent_hash = "C2"
    /\ result.value = <<[ref |-> "C3", parent_or_parents |-> Single(None)]>>

\* a step of the fold keeps every record there is, its first parent and,
\* once set, its pair
ParentsKept ==
    (ParsingLog /\ result.kind = "folding" /\ result'.kind \in {"folding", "returned"}) =>
        /\ Len(result'.value) >= Len(result.value)
        /\ \A i \in 1..Len(result.value) :
              /\ result'.value[i].ref = result.value[i].ref
              /\ result'.value[i].parent_or_parents.first = result.value[i].parent_or_parents.first
              /\ result.value[i].parent_or_parents.tuple =>
                    result'.value[i].parent_or_parents = result.value[i].parent_or_parents

\* the commit ids that came in three rows or more
ThriceSeen == {ref \in CommitIds : Len(RowsOf(ref)) >= 3}

\* C29 as stated: parents are append-only, the merge parent is set at most
\* once, and a third row for the same commit id is rejected with an error.
C29_ThirdRowRejected ==
    /\ [][ParentsKept]_vars
    /\ []((ParsingLog /\ Returned) => ThriceSeen = {})

\* C29 amended: parents are append-only and the merge parent is set at most
\* once: no step of the fold replaces or drops a parent a record holds, and
\* a row for a commit whose record already holds a pair is rejected with
\* ValueError; only the rows that repeat a commit whose first parent is
\* empty are let through, and they change nothing.
C29_ParentsAppendOnly ==
    /\ [][ParentsKept]_vars
    /\ []((ParsingLog /\ Returned) =>
            \A ref \in ThriceSeen : RowsOf(ref)[1].parent_hash = None)
    /\ []((ParsingLog /\ Ended /\ outcome = "ValueError") =>
            LET row == call.rows[call.next]
            IN /\ result.kind = "folding"
               /\ result.value[RefAt(result.value, row.commit_hash)].parent_or_parents.tuple
               /\ Len(SelectSeq(SubSeq(call.rows, 1, call.next),
                                LAMBDA r : r.commit_hash = row.commit_hash)) = 3)

\* three rows for C3: the third is rejected, the pair of the first two kept
C29_Witness ==
    /\ ParsingLog /\ Ended /\ outcome = "ValueError"
    /\ call.next = 3
    /\ result.value = <<[ref |-> "C3", parent_or_parents |-> Pair("C1", "C2")]>>

\* ------------------------------------ the branch the load is written on

\* the steps that run a writer, an add or the commit, loaders.py:178-185
LoadStep == pc \in {"L178", "L184", "L185"} /\ cmds' # cmds

\* between the switch and the restore the target is checked out, and the
\* log of the originally active branch is the one the call began with
OnTarget ==
    /\ pc \in {"L178", "L181", "L184", "L185"} => repo.active = Target
    /\ (pc # "idle" /\ Target # pre.active) => repo.log[pre.active] = pre.log[pre.active]

\* C28: every writer, add and commit of a loader call runs while the target
\* branch is checked out and leaves it checked out, a commit of the load is
\* appended to the log of the target branch only, and the log of the
\* originally active branch, when it is not the target, stays as it was.
C28_LoadRunsOnTarget ==
    /\ []OnTarget
    /\ [][LoadStep =>
            /\ repo.active = Target /\ repo'.active = Target
            /\ \A b \in Branches \ {Target} : repo'.log[b] = repo.log[b]]_vars

\* a load on another branch committed there and restored the original one
C28_Witness ==
    /\ Returned
    /\ Target # pre.active
    /\ repo.active = pre.active
    /\ Len(repo.log[Target]) = Len(pre.log[Target]) + 1
    /\ repo.log[pre.active] = pre.log[pre.active]
    /\ \E i \in Issued("commit") : cmds[i].ok

\* ------------- DoltHubContext, dolt.py:218-253; load_to_dolt, wrappers.py

\* most loaders handed to load_to_dolt
MaxLoaders == 2

\* the directory a context is given: none (a fresh temporary directory is
\* made, line 227), one that holds a repository, one that does not
Paths == {None, "repository", "plain directory"}

\* dolt.py:263, the marker subdirectory is there
ValidRepository(path) == path = "repository"

\* the loaders of the list and the branch each returns
LoaderNames == {"l1", "l2"}
LoaderBranch(l) == IF l = "l1" THEN "master" ELSE "feature"

\* an except clause catches the exceptions of its class, dolt.py:237
Catches(handler, exc) == handler = exc

\* the context: the handle bound to self.dolt, and what __enter__ gave
Context(dolt, entered) == [kind |-> "context", dolt |-> dolt, value |-> entered]

\* wrappers.py:46-50: the loaders in list order, each followed by its push
RECURSIVE LoadCommands(_, _)
LoadCommands(ls, push) ==
    IF ls = <<>> THEN <<>>
    ELSE <<Cmd("loader", Head(ls), TRUE)>>
         \o (IF push THEN <<Cmd("push", LoaderBranch(Head(ls)), TRUE)>> ELSE <<>>)
         \o LoadCommands(Tail(ls), push)

\* dolt.py:219-230 and wrappers.py:37: the context is constructed, and
\* entered by the caller or by load_to_dolt
ContextInvoke ==
    \E fn \in {"__enter__", "load_to_dolt"}, path \in Paths, db_path \in {None, "org/db"},
       tables_to_read \in BOOLEAN, ls \in SeqUpTo(LoaderNames, MaxLoaders),
       push \in BOOLEAN, dry_run \in BOOLEAN :
        /\ fn = "__enter__" => ls = <<>> /\ ~push /\ ~dry_run
        /\ fn = "load_to_dolt" => ~tables_to_read
        /\ pc = "idle"
        /\ Begin("E234")
        /\ call' = [fn |-> fn, path |-> path, db_path |-> db_path,
                    tables_to_read |-> tables_to_read, loaders |-> ls,
                    push |-> push, dry_run |-> dry_run]
        /\ result' = Context(None, None)
        /\ UNCHANGED <<repo, added, loaderVars, mergeVars, hostVars>>

\* dolt.py:233-246: Dolt(self.path) raises ValueError for a directory
\* without a repository (lines 263-264); the handler of line 237 is for
\* AssertionError
ContextOpen ==
    /\ pc = "E234"
    /\ IF ValidRepository(call.path)
       THEN pc' = "E236" /\ UNCHANGED <<outcome, cmds, result>>
       ELSE IF ~Catches("AssertionError", "ValueError")
       THEN Raise("ValueError") /\ UNCHANGED <<cmds, result>>
       ELSE IF call.db_path = None
       THEN Raise("ValueError") /\ UNCHANGED <<cmds, result>>
       ELSE \E ok \in BOOLEAN :
              /\ cmds' = Append(cmds, Cmd(IF call.tables_to_read THEN "read-tables" ELSE "clone",
                                          call.db_path, ok))
              /\ IF ok
                 THEN /\ result' = Context("handle", None)
                      /\ IF call.fn = "__enter__" THEN Return
                         ELSE pc' = "W38" /\ UNCHANGED outcome
                 ELSE Raise("DoltException") /\ UNCHANGED result
    /\ UNCHANGED <<repo, pre, mid, calls, call, added, loaderVars, mergeVars, hostVars>>

\* dolt.py:236, 247: the pull; then self.dolt is bound, and __enter__ ends
\* without a return statement
ContextPull ==
    /\ pc = "E236"
    /\ \E ok \in BOOLEAN :
        /\ cmds' = Append(cmds, Cmd("pull", "origin", ok))
        /\ IF ok
           THEN /\ result' = Context("handle", None)
                /\ IF call.fn = "__enter__" THEN Return
                   ELSE pc' = "W38" /\ UNCHANGED outcome
           ELSE Raise("DoltException") /\ UNCHANGED result
    /\ UNCHANGED <<repo, pre, mid, calls, call, added, loaderVars, mergeVars, hostVars>>

\* wrappers.py:37-50: dolthub_context is what __enter__ returned; the
\* message of line 38 reads dolthub_context.dolt
LoadBody ==
    /\ pc = "W38"
    /\ IF result.value = None
       THEN Raise("AttributeError") /\ UNCHANGED cmds
       ELSE /\ cmds' = cmds \o (IF call.dry_run THEN <<>> ELSE LoadCommands(call.loaders, call.push))
            /\ Return
    /\ UNCHANGED <<repo, pre, mid, calls, call, result, added, loaderVars, mergeVars, hostVars>>

ContextInit == CliStart({CleanRepo("master", Branches, EmptyLog)})

ContextNext ==
    \/ ContextInvoke
    \/ ContextOpen
    \/ ContextPull
    \/ LoadBody

ContextSpec == ContextInit /\ [][ContextNext]_vars

\* --------------------------------------------- claims on the context

\* the commands after the context was entered
AfterEnter == SubSeq(cmds, 2, Len(cmds))

\* C27: a load_to_dolt call whose context was entered (no command of the
\* entry exited nonzero) returns, having run every loader in list order,
\* each followed at once by the push of its branch when push is set; with
\* dry_run it has run no loader and issued no push.
C27_LoadersRunInOrder ==
    (call.fn = "load_to_dolt" /\ Ended /\ cmds # <<>> /\ cmds[1].ok) =>
        /\ outcome = "returned"
        /\ AfterEnter = IF call.dry_run THEN <<>> ELSE LoadCommands(call.loaders, call.push)

\* C30: entering a context ends with a handle bound, after a pull when the
\* path holds a repository and after read-tables or clone when it does
\* not; it fails only with ValueError when the path holds no repository and
\* db_path is missing (or when the command it ran exited nonzero).
C30_EnterAlwaysBinds ==
    (call.fn = "__enter__" /\ Ended) =>
        \/ outcome = "DoltException" /\ cmds # <<>> /\ ~cmds[Len(cmds)].ok
        \/ outcome = "ValueError" /\ ~ValidRepository(call.path) /\ call.db_path = None
        \/ /\ outcome = "returned"
           /\ result.dolt # None
           /\ Len(cmds) = 1
           /\ cmds[1].cmd = IF ValidRepository(call.path) THEN "pull"
                            ELSE IF call.tables_to_read THEN "read-tables" ELSE "clone"

\* ---------------- two loader calls on two repository directories at once

\* one working directory for every handle: a command runs in the directory
\* the last command ran in
RepoSeenShared(own, last) == last

\* dolt.py:285-294: a command of a handle runs in the handle's repo_dir()
RepoSeen(own, last) == own

\* a loader call that is not taking the step: its repository directory,
\* its position, its locals, and the commands it has issued
Suspended(id) ==
    [id |-> id, repo |-> repo, pre |-> pre, mid |-> mid, pc |-> pc, outcome |-> outcome,
     cmds |-> cmds, calls |-> calls, loader |-> loader, original_branch |-> original_branch,
     current_branch_list |-> current_branch_list, tables_updated |-> tables_updated,
     added |-> added]

\* the scheduler lets the other call take the next steps
Interleave ==
    /\ other.id # 0
    /\ other' = Suspended(3 - other.id)
    /\ repo' = RepoSeen(other.repo, repo)
    /\ pre' = other.pre
    /\ mid' = other.mid
    /\ pc' = other.pc
    /\ outcome' = other.outcome
    /\ cmds' = other.cmds
    /\ calls' = other.calls
    /\ loader' = other.loader
    /\ original_branch' = other.original_branch
    /\ current_branch_list' = other.current_branch_list
    /\ tables_updated' = other.tables_updated
    /\ added' = other.added
    /\ UNCHANGED <<mergeVars, cliVars, tmpfile>>

\* the two directories: one branch and clean tables, or two branches and a
\* table already modified
ConcurrentRepos ==
    {CleanRepo("master", {"master"}, EmptyLog),
     [CleanRepo("feature", Branches, EmptyLog) EXCEPT !.wtree["t1"] = "modified"]}

ConcurrentLoaders ==
    [writers : {<<"t1">>}, commit : {TRUE}, message : {"load"},
     branch : Branches, transaction_mode : {FALSE}]

\* each of the two calls is made once
ConcurrentInit ==
    /\ repo \in ConcurrentRepos
    /\ pre = repo
    /\ mid = [set |-> FALSE, repo |-> repo]
    /\ pc = "idle"
    /\ outcome = "none"
    /\ cmds = <<>>
    /\ calls = MaxCalls - 1
    /\ loader \in ConcurrentLoaders
    /\ original_branch = NoBranch
    /\ current_branch_list = <<>>
    /\ tables_updated = <<>>
    /\ added = 0
    /\ merge_args = NoMerge
    /\ merge_branches = <<>>
    /\ status = DoltStatus(TRUE, NoMap, NoMap)
    /\ output = <<>>
    /\ call = NoCall
    /\ result = NoResult
    /\ tmpfile = NoFile
    /\ \E r \in ConcurrentRepos, l \in ConcurrentLoaders :
          other = [id |-> 2, repo |-> r, pre |-> r, mid |-> [set |-> FALSE, repo |-> r],
                   pc |-> "idle", outcome |-> "none", cmds |-> <<>>, calls |-> MaxCalls - 1,
                   loader |-> l, original_branch |-> NoBranch, current_branch_list |-> <<>>,
                   tables_updated |-> <<>>, added |-> 0]

ConcurrentNext ==
    \/ LoaderInvoke
    \/ LoaderReadBranches
    \/ LoaderCreateBranch
    \/ LoaderCheckoutTarget
    \/ LoaderRunWriter
    \/ LoaderCheckStatus
    \/ LoaderAdd
    \/ LoaderCommit
    \/ LoaderRestoreRead
    \/ LoaderRestoreCheckout
    \/ Interleave

ConcurrentSpec == ConcurrentInit /\ [][ConcurrentNext]_vars

\* --------------------------------------------- claims on concurrent loads

\* what a command that exited 0 does to the repository it ran in
Effects(r, e) ==
    IF ~e.ok THEN {r}
    ELSE CASE e.cmd = "branch" -> {EnvBranchCreate(r, e.arg)}
           [] e.cmd = "checkout" -> {EnvCheckout(r, e.arg)}
           [] e.cmd = "table import" -> {EnvImport(r, e.arg, changed) : changed \in BOOLEAN}
           [] e.cmd = "add" -> {EnvAdd(r, e.arg)}
           [] e.cmd = "commit" -> {EnvCommit(r, e.arg)}
           [] OTHER -> {r}

\* the repositories a call leaves when its commands run alone, one after
\* the other, on the repositories rs
RECURSIVE Alone(_, _)
Alone(rs, log) ==
    IF log = <<>> THEN rs
    ELSE Alone(UNION {Effects(r, Head(log)) : r \in rs}, Tail(log))

\* active branch, branch list and commits
Outcome(r) == [active |-> r.active, branches |-> r.branches, log |-> r.log]

AsAlone(r, before, log) == Outcome(r) \in {Outcome(a) : a \in Alone({before}, log)}

\* C26: whatever the interleaving of the two calls' commands, the active
\* branch, the branch list and the commits of each repository are, at every
\* moment and so when its call ends, what the commands of its own call
\* alone make of the repository the call began on; and a step of one call
\* changes nothing of the other call or of its repository.
C26_ConcurrentLoadsIndependent ==
    /\ [](other.id # 0 =>
            /\ AsAlone(repo, pre, cmds)
            /\ AsAlone(other.repo, other.pre, other.cmds))
    /\ [][other' = other \/ (other'.id # other.id /\ other' = Suspended(other'.id))]_vars

\* both calls in the middle of their loads, on different targets
C26_Witness ==
    /\ other.id # 0
    /\ pc = "L185" /\ other.pc = "L184"
    /\ repo.active # other.repo.active
    /\ repo # pre /\ other.repo # other.pre

\* both calls returned, each repository with the commit of its own load
C26_WitnessEnded ==
    /\ other.id # 0
    /\ Returned /\ other.pc = "done" /\ other.outcome = "returned"
    /\ Len(repo.log[Target]) = 1 /\ Len(other.repo.log[other.loader.branch]) = 1
    /\ Target # other.loader.branch

====
